---- MODULE Spec2Model ----
(***************************************************************************)
(* Adaptive-moment shape measurement (src/src/shape/SdssShape.cc).         *)
(*                                                                         *)
(* Real numbers (the code's float and double) are fixed-point integers in  *)
(* units of 1/S.  S = 576 = 24^2 makes the constants the code uses exact:  *)
(* 1/12, 1/144, 1.5, the sub-pixel offsets 0.375 and 0.25 and their        *)
(* squares.  NaN is a reserved value that every operation propagates and   *)
(* every comparison rejects, as IEEE arithmetic does.                      *)
(***************************************************************************)
EXTENDS Integers, Sequences, FiniteSets, TLC

S == 576
NaN == -2000000000
INT_MIN == -2147483647 - 1

IsNaN(a) == a = NaN

\* the element of a one-element set; {e(v) : v \in {x}} is e(x) with x
\* computed once
The(s) == CHOOSE e \in s : TRUE

Add(a, b) == IF IsNaN(a) \/ IsNaN(b) THEN NaN ELSE a + b
Sub(a, b) == IF IsNaN(a) \/ IsNaN(b) THEN NaN ELSE a - b
Neg(a) == IF IsNaN(a) THEN NaN ELSE 0 - a
Fabs(a) == IF IsNaN(a) THEN NaN ELSE IF a < 0 THEN 0 - a ELSE a

\* comparisons are false when an operand is NaN
Lt(a, b) == ~IsNaN(a) /\ ~IsNaN(b) /\ a < b
Le(a, b) == ~IsNaN(a) /\ ~IsNaN(b) /\ a <= b
Gt(a, b) == ~IsNaN(a) /\ ~IsNaN(b) /\ a > b
Ge(a, b) == ~IsNaN(a) /\ ~IsNaN(b) /\ a >= b

\* a*b, rounded down to the grid
Mul(a, b) ==
    IF IsNaN(a) \/ IsNaN(b) THEN NaN
    ELSE (a \div S) * b + ((a % S) * b) \div S

\* integer factor times a real
Scale(k, a) == IF IsNaN(a) THEN NaN ELSE k * a

\* a/b, rounded down to the grid; x/0 has no finite value.  The remainder
\* is scaled by S = 24 * 24 in two steps, which keeps large divisors within
\* the integers at hand.
Div(a, b) ==
    IF IsNaN(a) \/ IsNaN(b) \/ b = 0 THEN NaN
    ELSE LET n == IF b < 0 THEN 0 - a ELSE a
             d == IF b < 0 THEN 0 - b ELSE b
             r == (n % d) * 24
         IN  (n \div d) * S + (r \div d) * 24 + ((r % d) * 24) \div d

RECURSIVE ISqrtBetween(_, _, _)
ISqrtBetween(n, lo, hi) ==
    IF hi - lo <= 1 THEN lo
    ELSE LET mid == (lo + hi) \div 2
         IN  IF mid * mid <= n THEN ISqrtBetween(n, mid, hi)
             ELSE ISqrtBetween(n, lo, mid)

\* largest r with r*r <= n
ISqrt(n) == ISqrtBetween(n, 0, 46341)

\* sqrt; NaN for a negative argument
Sqrt(a) ==
    IF IsNaN(a) \/ a < 0 THEN NaN
    ELSE IF a <= 3728270 THEN ISqrt(a * S) ELSE 24 * ISqrt(a)

\* static_cast<int>(a): truncation toward zero; the conversion of NaN is
\* undefined and yields whatever the build produces (nanCast)
CastInt(a, nanCast) ==
    IF IsNaN(a) THEN nanCast
    ELSE IF a >= 0 THEN a \div S ELSE 0 - ((0 - a) \div S)

\* S*exp(-k/32) for k = 0..224: exp(-0.5*expon) sampled every 1/16 in expon
ExpTable == <<
    576, 558, 541, 524, 508, 493, 478, 463, 449, 435, 421, 408, 396, 384, 372,
    360, 349, 339, 328, 318, 308, 299, 290, 281, 272, 264, 256, 248, 240, 233,
    226, 219, 212, 205, 199, 193, 187, 181, 176, 170, 165, 160, 155, 150, 146,
    141, 137, 133, 129, 125, 121, 117, 113, 110, 107, 103, 100, 97, 94, 91,
    88, 86, 83, 80, 78, 76, 73, 71, 69, 67, 65, 63, 61, 59, 57,
    55, 54, 52, 50, 49, 47, 46, 44, 43, 42, 40, 39, 38, 37, 36,
    35, 34, 32, 31, 31, 30, 29, 28, 27, 26, 25, 25, 24, 23, 22,
    22, 21, 20, 20, 19, 19, 18, 17, 17, 16, 16, 15, 15, 14, 14,
    14, 13, 13, 12, 12, 12, 11, 11, 11, 10, 10, 10, 9, 9, 9,
    8, 8, 8, 8, 7, 7, 7, 7, 7, 6, 6, 6, 6, 6, 5,
    5, 5, 5, 5, 5, 5, 4, 4, 4, 4, 4, 4, 4, 4, 3,
    3, 3, 3, 3, 3, 3, 3, 3, 3, 3, 2, 2, 2, 2, 2,
    2, 2, 2, 2, 2, 2, 2, 2, 2, 2, 2, 1, 1, 1, 1,
    1, 1, 1, 1, 1, 1, 1, 1, 1, 1, 1, 1, 1, 1, 1,
    1, 1, 1, 1, 1, 1, 1, 1, 1, 1, 1, 1, 1, 1, 1
    >>

EXPON_STEP == 36

\* exp(-0.5*expon)
ExpHalf(expon) ==
    IF IsNaN(expon) THEN NaN
    ELSE LET e == IF expon < 0 THEN 0 - expon ELSE expon
             k == IF e \div EXPON_STEP > 224 THEN 224 ELSE e \div EXPON_STEP
         IN  IF expon >= 0 THEN ExpTable[k + 1] ELSE Div(S * S, ExpTable[k + 1] * S)

(***************************************************************************)
(* Program constants                                                       *)
(***************************************************************************)
MAXIT == 100

\* std::numeric_limits<float>::epsilon() (1.19e-7) rounded up to the grid:
\* for a grid value x, x < FLT_EPSILON exactly when x <= 0
FLT_EPSILON == 1

\* std::numeric_limits<double>::epsilon() (2.2e-16) rounded down to the
\* grid: for a grid value x, x <= DBL_EPSILON exactly when x <= 0
DBL_EPSILON == 0

\* 1e6, the initial e1_old, e2_old, sigma11_ow_old and calcmom's weight limit
BIG == 1000000 * S

\* 1/12, the second moment of a single pixel
iMin == S \div 12

PI == 1810

SHAPE_MAXITER == "MAXITER"
SHAPE_UNWEIGHTED == "UNWEIGHTED"
SHAPE_UNWEIGHTED_BAD == "UNWEIGHTED_BAD"
SHAPE_SHIFT == "SHIFT"

(***************************************************************************)
(* getWeights: weights (the inverse matrix) from second moments            *)
(***************************************************************************)
NaNWeights(ok) == [ok |-> ok, det |-> NaN, w11 |-> NaN, w12 |-> NaN, w22 |-> NaN]

\* a >= b - epsilon for grid values a, b
GeMinusEps(a, b) == Ge(a, b)

\* the weights of a singular matrix with nothing added to its axes
DegenerateWeightsExact(sigma11, sigma12, sigma22) ==
    LET det2 == Sub(Mul(sigma11, sigma22), Mul(sigma12, sigma12))
    IN  [ok |-> TRUE, det |-> det2, w11 |-> Div(sigma22, det2),
         w12 |-> Neg(Div(sigma12, det2)), w22 |-> Div(sigma11, det2)]

\* Quadrupole -> Axes, add 1/12 in quadrature to both axes, -> Quadrupole,
\* inverted.  The squared axes are 0.5*(xx + yy +- t); the square root of a
\* negative one is NaN and poisons the result; otherwise the new quadrupole
\* is the old one plus 1/12 on the diagonal.
DegenerateWeights(sigma11, sigma12, sigma22) ==
    LET xp == sigma11 + sigma22
        xm == sigma11 - sigma22
        t == Sqrt(Add(Mul(xm, xm), Scale(4, Mul(sigma12, sigma12))))
        q11 == sigma11 + iMin
        q22 == sigma22 + iMin
        det2 == Sub(Mul(q11, q22), Mul(sigma12, sigma12))
    IN  IF IsNaN(t) \/ xp + t < 0 \/ xp - t < 0 THEN NaNWeights(TRUE)
        ELSE [ok |-> TRUE, det |-> det2, w11 |-> Div(q22, det2),
              w12 |-> Neg(Div(sigma12, det2)), w22 |-> Div(q11, det2)]

getWeights(sigma11, sigma12, sigma22) ==
    IF IsNaN(sigma11) \/ IsNaN(sigma12) \/ IsNaN(sigma22) THEN NaNWeights(FALSE)
    ELSE LET det == Sub(Mul(sigma11, sigma22), Mul(sigma12, sigma12))
         IN  IF IsNaN(det) \/ det < FLT_EPSILON
             THEN DegenerateWeights(sigma11, sigma12, sigma22)
             ELSE [ok |-> TRUE, det |-> det, w11 |-> Div(sigma22, det),
                   w12 |-> Neg(Div(sigma12, det)), w22 |-> Div(sigma11, det)]

\* the assert on the normal branch of getWeights (line 196) can only be
\* reached with det >= FLT_EPSILON, where it holds
getWeightsAssert(sigma11, sigma12, sigma22) ==
    GeMinusEps(Mul(sigma11, sigma22), Mul(sigma12, sigma12))

\* Should we be interpolating?
getInterp(sigma11, sigma22, det) ==
    Lt(sigma11, S \div 4) \/ Lt(sigma22, S \div 4) \/ Lt(det, S \div 16)

(***************************************************************************)
(* set_amom_bbox: the region to examine.  Box2I(llc, urc) swaps the        *)
(* corners of a dimension whose minimum exceeds its maximum.               *)
(***************************************************************************)
MinInt(a, b) == IF a < b THEN a ELSE b
MaxInt(a, b) == IF a < b THEN b ELSE a

maxRad == 1000 * S

\* the box with a radius of one sigma instead of four
set_amom_bboxNarrow(width, height, xcen, ycen, sigma11_w, sigma22_w, nanCast) ==
    LET r0 == Scale(1, Sqrt(IF Gt(sigma11_w, sigma22_w) THEN sigma11_w ELSE sigma22_w))
        rad == IF Gt(r0, maxRad) THEN maxRad ELSE r0
        cx0 == CastInt(Sub(Sub(xcen, rad), S \div 2), nanCast)
        cy0 == CastInt(Sub(Sub(ycen, rad), S \div 2), nanCast)
        cx1 == CastInt(Add(Add(xcen, rad), S \div 2), nanCast)
        cy1 == CastInt(Add(Add(ycen, rad), S \div 2), nanCast)
        ix0 == IF cx0 < 0 THEN 0 ELSE cx0
        iy0 == IF cy0 < 0 THEN 0 ELSE cy0
        ix1 == IF cx1 >= width THEN width - 1 ELSE cx1
        iy1 == IF cy1 >= height THEN height - 1 ELSE cy1
    IN  [minX |-> MinInt(ix0, ix1), maxX |-> MaxInt(ix0, ix1),
         minY |-> MinInt(iy0, iy1), maxY |-> MaxInt(iy0, iy1)]

set_amom_bbox(width, height, xcen, ycen, sigma11_w, sigma22_w, nanCast) ==
    LET r0 == Scale(4, Sqrt(IF Gt(sigma11_w, sigma22_w) THEN sigma11_w ELSE sigma22_w))
        rad == IF Gt(r0, maxRad) THEN maxRad ELSE r0
        cx0 == CastInt(Sub(Sub(xcen, rad), S \div 2), nanCast)
        cy0 == CastInt(Sub(Sub(ycen, rad), S \div 2), nanCast)
        cx1 == CastInt(Add(Add(xcen, rad), S \div 2), nanCast)
        cy1 == CastInt(Add(Add(ycen, rad), S \div 2), nanCast)
        ix0 == IF cx0 < 0 THEN 0 ELSE cx0
        iy0 == IF cy0 < 0 THEN 0 ELSE cy0
        ix1 == IF cx1 >= width THEN width - 1 ELSE cx1
        iy1 == IF cy1 >= height THEN height - 1 ELSE cy1
    IN  [minX |-> MinInt(ix0, ix1), maxX |-> MaxInt(ix0, ix1),
         minY |-> MinInt(iy0, iy1), maxY |-> MaxInt(iy0, iy1)]

(***************************************************************************)
(* calcmom: weighted moments of an object up to 2nd order.  An image is a  *)
(* record: width, height, pix (rows of integer pixel values, row i + 1     *)
(* column j + 1 holding pixel (j, i)) and variance (rows of variances, or  *)
(* the empty sequence for a plain Image without a variance plane).         *)
(***************************************************************************)
PixelAt(image, j, i) == image.pix[i + 1][j + 1] * S

ZeroMoms ==
    [sum |-> 0, sumx |-> 0, sumy |-> 0, sumxx |-> 0, sumxy |-> 0,
     sumyy |-> 0, sums4 |-> 0]

AddMoms(a, b) ==
    [sum |-> Add(a.sum, b.sum), sumx |-> Add(a.sumx, b.sumx),
     sumy |-> Add(a.sumy, b.sumy), sumxx |-> Add(a.sumxx, b.sumxx),
     sumxy |-> Add(a.sumxy, b.sumxy), sumyy |-> Add(a.sumyy, b.sumyy),
     sums4 |-> Add(a.sums4, b.sums4)]

\* what one "sum += ..." group of the inner loop adds: the sample at offset
\* (X, Y) from the centre, with exponent expon, first moments at (px, py)
Sample(fluxOnly, tmod, X, Y, px, py, expon) ==
    LET weight == ExpHalf(expon)
        ymod == Mul(tmod, weight)
    IN  IF fluxOnly THEN [ZeroMoms EXCEPT !.sum = ymod]
        ELSE [sum |-> ymod,
              sumx |-> Mul(ymod, px),
              sumy |-> Mul(ymod, py),
              sumxx |-> Mul(Mul(X, X), ymod),
              sumxy |-> Mul(Mul(X, Y), ymod),
              sumyy |-> Mul(Mul(Y, Y), ymod),
              sums4 |-> Mul(Mul(expon, expon), ymod)]

Expon(X, Y, w11, w12, w22) ==
    Add(Add(Mul(Mul(X, X), w11), Mul(Scale(2, Mul(X, Y)), w12)), Mul(Mul(Y, Y), w22))

\* the smaller of the two
MinExpon(expon, tmp) == IF Gt(expon, tmp) THEN tmp ELSE expon

\* (expon > tmp) ? expon : tmp
MaxExpon(expon, tmp) == IF Gt(expon, tmp) THEN expon ELSE tmp

\* what sub-pixel samples lo .. hi of the 4 x 4 samples of one pixel add
\* (the terms are added pairwise; addition on the grid is associative)
RECURSIVE InterpSamples(_, _, _, _, _, _, _, _, _, _, _)
InterpSamples(lo, hi, tmod, xl, yl, xcen, ycen, w11, w12, w22, fluxOnly) ==
    IF lo = hi
    THEN LET X == xl + (lo % 4) * (S \div 4)
             Y == yl + (lo \div 4) * (S \div 4)
         IN  Sample(fluxOnly, tmod, X, Y, X + xcen, Y + ycen, Expon(X, Y, w11, w12, w22))
    ELSE LET mid == (lo + hi) \div 2
         IN  AddMoms(InterpSamples(lo, mid, tmod, xl, yl, xcen, ycen, w11, w12, w22, fluxOnly),
                     InterpSamples(mid + 1, hi, tmod, xl, yl, xcen, ycen, w11, w12, w22, fluxOnly))

\* what the body of the loops over i and j adds for pixel (j, i)
PixelMoms(image, j, i, xcen, ycen, bkgd, interpflag, w11, w12, w22, fluxOnly) ==
    LET x == j * S - xcen
        y == i * S - ycen
        tmod == Sub(PixelAt(image, j, i), bkgd)
    IN  IF interpflag
        THEN LET xl == x - (3 * S) \div 8
                 xh == x + (3 * S) \div 8
                 yl == y - (3 * S) \div 8
                 yh == y + (3 * S) \div 8
                 expon == MaxExpon(MaxExpon(MaxExpon(Expon(xl, yl, w11, w12, w22),
                                                     Expon(xh, yh, w11, w12, w22)),
                                            Expon(xl, yh, w11, w12, w22)),
                                   Expon(xh, yl, w11, w12, w22))
             IN  IF Le(expon, 9 * S)
                 THEN InterpSamples(0, 15, tmod, xl, yl, xcen, ycen, w11, w12, w22, fluxOnly)
                 ELSE ZeroMoms
        ELSE LET expon == Expon(x, y, w11, w12, w22)
             IN  IF Le(expon, 14 * S)
                 THEN Sample(fluxOnly, tmod, x, y, j * S, i * S, expon)
                 ELSE ZeroMoms

\* the sums over pixels lo .. hi of the box, counted row by row from 0
RECURSIVE SumPixels(_, _, _, _, _, _, _, _, _, _, _, _)
SumPixels(lo, hi, image, bbox, xcen, ycen, bkgd, interpflag, w11, w12, w22, fluxOnly) ==
    IF lo = hi
    THEN LET bw == bbox.maxX - bbox.minX + 1
         IN  PixelMoms(image, bbox.minX + (lo % bw), bbox.minY + (lo \div bw),
                       xcen, ycen, bkgd, interpflag, w11, w12, w22, fluxOnly)
    ELSE LET mid == (lo + hi) \div 2
         IN  AddMoms(SumPixels(lo, mid, image, bbox, xcen, ycen, bkgd, interpflag,
                               w11, w12, w22, fluxOnly),
                     SumPixels(mid + 1, hi, image, bbox, xcen, ycen, bkgd, interpflag,
                               w11, w12, w22, fluxOnly))

\* calcmom with the sums tested in flux-only mode as well
calcmomFullOnly(fluxOnly, image, xcen, ycen, bbox, bkgd, interpflag, w11, w12, w22) ==
    IF ~Ge(w11, 0)
    THEN [ret |-> -1, aborted |-> TRUE, written |-> FALSE, m |-> ZeroMoms]
    ELSE IF Gt(Fabs(w11), BIG) \/ Gt(Fabs(w12), BIG) \/ Gt(Fabs(w22), BIG)
    THEN [ret |-> -1, aborted |-> FALSE, written |-> FALSE, m |-> ZeroMoms]
    ELSE IF bbox.minX < 0 \/ bbox.maxX >= image.width
            \/ bbox.minY < 0 \/ bbox.maxY >= image.height
    THEN [ret |-> -1, aborted |-> FALSE, written |-> FALSE, m |-> ZeroMoms]
    ELSE LET n == (bbox.maxX - bbox.minX + 1) * (bbox.maxY - bbox.minY + 1)
         IN  The({[ret |-> IF Gt(m.sum, 0) /\ Gt(m.sumxx, 0) /\ Gt(m.sumyy, 0)
                           THEN 0 ELSE -1,
                   aborted |-> FALSE, written |-> TRUE, m |-> m] :
                  m \in {SumPixels(0, n - 1, image, bbox, xcen, ycen, bkgd, interpflag,
                                   w11, w12, w22, fluxOnly)}})

\* result of calcmom: ret is the return value, aborted tells that the
\* assert failed, written that *psum ... were assigned, m the sums
calcmom(fluxOnly, image, xcen, ycen, bbox, bkgd, interpflag, w11, w12, w22) ==
    IF ~Ge(w11, 0)
    THEN [ret |-> -1, aborted |-> TRUE, written |-> FALSE, m |-> ZeroMoms]
    ELSE IF Gt(Fabs(w11), BIG) \/ Gt(Fabs(w12), BIG) \/ Gt(Fabs(w22), BIG)
    THEN [ret |-> -1, aborted |-> FALSE, written |-> FALSE, m |-> ZeroMoms]
    ELSE IF bbox.minX < 0 \/ bbox.maxX >= image.width
            \/ bbox.minY < 0 \/ bbox.maxY >= image.height
    THEN [ret |-> -1, aborted |-> FALSE, written |-> FALSE, m |-> ZeroMoms]
    ELSE LET n == (bbox.maxX - bbox.minX + 1) * (bbox.maxY - bbox.minY + 1)
         IN  The({[ret |-> IF fluxOnly \/ (Gt(m.sum, 0) /\ Gt(m.sumxx, 0)
                                             /\ Gt(m.sumyy, 0))
                           THEN 0 ELSE -1,
                   aborted |-> FALSE, written |-> TRUE, m |-> m] :
                  m \in {SumPixels(0, n - 1, image, bbox, xcen, ycen, bkgd, interpflag,
                                   w11, w12, w22, fluxOnly)}})

(***************************************************************************)
(* calc_fisher: the Fisher matrix of a shape.                              *)
(***************************************************************************)
\* the matrix thrown away with the exception
NoMatrix == <<>>

\* the 10 independent elements of the 4 x 4 matrix and their copies, rows
\* and columns counted from 1
FisherMatrix(A, sigma11W, sigma12W, sigma22W, D, F) ==
    LET fac1 == Div(Mul(F, A), Scale(4, D))
        fac == Div(Scale(3, Mul(Mul(F, A), A)), Scale(16, Mul(D, D)))
        f01 == Mul(fac1, sigma22W)
        f02 == Mul(fac1, sigma11W)
        f03 == Mul(Neg(fac1), Scale(2, sigma12W))
        f11 == Mul(Mul(fac, sigma22W), sigma22W)
        f22 == Mul(Mul(fac, sigma11W), sigma11W)
        f33 == Mul(Scale(4, fac), Add(Mul(sigma12W, sigma12W), Div(D, 3 * S)))
        f12 == Div(f33, 4 * S)
        f13 == Mul(fac, Scale(-2, Mul(sigma22W, sigma12W)))
        f23 == Mul(fac, Scale(-2, Mul(sigma11W, sigma12W)))
    IN  <<<<F, f01, f02, f03>>,
          <<f01, f11, f12, f13>>,
          <<f02, f12, f22, f23>>,
          <<f03, f13, f23, f33>>>>

\* calc_fisher with the variance tested before the determinant
calc_fisherVarFirst(shape, bkgd_var) ==
    LET D == Sub(Mul(shape.ixx, shape.iyy), Mul(shape.ixy, shape.ixy))
    IN  IF Le(bkgd_var, 0)
        THEN [thrown |-> TRUE, F |-> NaN, why |-> "variance", fisher |-> NoMatrix]
        ELSE IF Le(D, DBL_EPSILON)
        THEN [thrown |-> TRUE, F |-> NaN, why |-> "determinant", fisher |-> NoMatrix]
        ELSE The({[thrown |-> FALSE, F |-> F, why |-> "none",
                   fisher |-> FisherMatrix(shape.i0, shape.ixx, shape.ixy, shape.iyy,
                                           D, F)] :
                  F \in {Div(Mul(PI, Sqrt(D)), bkgd_var)}})

\* thrown tells that DomainErrorException was thrown, why for which test
calc_fisher(shape, bkgd_var) ==
    LET D == Sub(Mul(shape.ixx, shape.iyy), Mul(shape.ixy, shape.ixy))
    IN  IF Le(D, DBL_EPSILON)
        THEN [thrown |-> TRUE, F |-> NaN, why |-> "determinant", fisher |-> NoMatrix]
        ELSE IF Le(bkgd_var, 0)
        THEN [thrown |-> TRUE, F |-> NaN, why |-> "variance", fisher |-> NoMatrix]
        ELSE The({[thrown |-> FALSE, F |-> F, why |-> "none",
                   fisher |-> FisherMatrix(shape.i0, shape.ixx, shape.ixy, shape.iyy,
                                           D, F)] :
                  F \in {Div(Mul(PI, Sqrt(D)), bkgd_var)}})

\* ImageAdaptor::getVariance: NaN for an image without a variance plane
getVariance(image, ix, iy) ==
    IF image.variance = <<>> THEN NaN ELSE image.variance[iy + 1][ix + 1]

\* afw::image::positionToIndex: floor(pos + 0.5)
positionToIndex(pos) == (pos + S \div 2) \div S

(***************************************************************************)
(* getAdaptiveMoments, one loop round at a time.  l is the record of the   *)
(* function's locals, sh the SdssShapeImpl being filled, in the arguments. *)
(* The seven sums are declared without an initial value: l.written and     *)
(* l.s4written tell whether calcmom has assigned them.                     *)
(***************************************************************************)
TOL1 == 1
TOL2_INV == 10000

InitLocals ==
    [ampW |-> 0, written |-> FALSE, s4written |-> FALSE,
     sum |-> NaN, sumx |-> NaN, sumy |-> NaN, sumxx |-> NaN, sumxy |-> NaN,
     sumyy |-> NaN, sums4 |-> NaN,
     sigma11W |-> (3 * S) \div 2, sigma12W |-> 0, sigma22W |-> (3 * S) \div 2,
     w11 |-> 0 - S, w12 |-> 0 - S, w22 |-> 0 - S,
     e1_old |-> BIG, e2_old |-> BIG, sigma11_ow_old |-> BIG,
     interpflag |-> FALSE, iter |-> 0,
     bbox |-> [minX |-> 0, maxX |-> -1, minY |-> 0, maxY |-> -1]]

\* variant: the flags are overwritten rather than added to
SetFlag(sh, f) == [sh EXCEPT !.flags = f]

AddFlag(sh, f) == [sh EXCEPT !.flags = @ \cup f]

\* where a round leaves the call: next is "loop" (another round), "post"
\* (the loop was left) or "aborted" (an assert failed); how tells why
Leave(next, how, l, sh) == [next |-> next, how |-> how, l |-> l, sh |-> sh]

\* the assert at the top of the loop
LoopAssert(l) == GeMinusEps(Mul(l.sigma11W, l.sigma22W), Mul(l.sigma12W, l.sigma12W))

\* the interpolation predicate becomes true for the first time
Latches(l, weights) ==
    getInterp(l.sigma11W, l.sigma22W, weights.det) /\ ~l.interpflag

\* variant: a latch after the first round still takes the new weights
SolveWeightsNew(l, weights) ==
    IF Latches(l, weights)
    THEN IF l.iter > 0
         THEN [l EXCEPT !.interpflag = TRUE, !.sigma11_ow_old = BIG, !.iter = @ - 1,
                        !.w11 = weights.w11, !.w12 = weights.w12, !.w22 = weights.w22]
         ELSE [l EXCEPT !.interpflag = TRUE, !.w11 = weights.w11,
                        !.w12 = weights.w12, !.w22 = weights.w22]
    ELSE [l EXCEPT !.w11 = weights.w11, !.w12 = weights.w12, !.w22 = weights.w22]

\* the block that takes the new weights, or on a latch after the first
\* round keeps the old ones and gives the iteration back
SolveWeights(l, weights) ==
    IF Latches(l, weights)
    THEN IF l.iter > 0
         THEN [l EXCEPT !.interpflag = TRUE, !.sigma11_ow_old = BIG, !.iter = @ - 1]
         ELSE [l EXCEPT !.interpflag = TRUE, !.w11 = weights.w11,
                        !.w12 = weights.w12, !.w22 = weights.w22]
    ELSE [l EXCEPT !.w11 = weights.w11, !.w12 = weights.w12, !.w22 = weights.w22]

\* calcmom's assignments through its pointer arguments; psums4 is NULL in
\* the unweighted pass
StoreSums(l, cm, withS4) ==
    IF ~cm.written THEN l
    ELSE [l EXCEPT !.written = TRUE, !.sum = cm.m.sum, !.sumx = cm.m.sumx,
                   !.sumy = cm.m.sumy, !.sumxx = cm.m.sumxx, !.sumxy = cm.m.sumxy,
                   !.sumyy = cm.m.sumyy,
                   !.sums4 = IF withS4 THEN cm.m.sums4 ELSE @,
                   !.s4written = IF withS4 THEN TRUE ELSE @]

\* fabs(sigma11_ow/sigma11_ow_old - 1.0) < TOL2, for sigma11_ow_old > 0
WithinTOL2(sigma11_ow, sigma11_ow_old) ==
    Le(Fabs(Sub(sigma11_ow, sigma11_ow_old)), (sigma11_ow_old - 1) \div TOL2_INV)

\* variant: round 0 passes the test
ConvergedAtOnce(l, e1, e2, sigma11_ow) ==
    \/ l.iter = 0
    \/ /\ Lt(Fabs(Sub(e1, l.e1_old)), TOL1)
       /\ Lt(Fabs(Sub(e2, l.e2_old)), TOL1)
       /\ WithinTOL2(sigma11_ow, l.sigma11_ow_old)

Converged(l, e1, e2, sigma11_ow) ==
    /\ l.iter > 0
    /\ Lt(Fabs(Sub(e1, l.e1_old)), TOL1)
    /\ Lt(Fabs(Sub(e2, l.e2_old)), TOL1)
    /\ WithinTOL2(sigma11_ow, l.sigma11_ow_old)

\* variant: a loop that admits one more counted iteration
LoopContinuesOneMore(iter) == iter <= MAXIT

\* the loop condition, evaluated after iter++
LoopContinues(iter) == iter < MAXIT

\* new values for the weighting function, then the end of the round
\* weights2 is the inverse of n11, n12, n22
NewSigmaW(l, sh, weights2) ==
    LET l2 == [l EXCEPT !.sigma11W = weights2.w11, !.sigma12W = weights2.w12,
                        !.sigma22W = weights2.w22]
        l3 == [l2 EXCEPT !.iter = @ + 1]
    IN  IF ~weights2.ok THEN Leave("post", "failure", l, AddFlag(sh, {SHAPE_UNWEIGHTED}))
        ELSE IF Le(l2.sigma11W, 0) \/ Le(l2.sigma22W, 0)
        THEN Leave("post", "failure", l2, AddFlag(sh, {SHAPE_UNWEIGHTED}))
        ELSE IF LoopContinues(l3.iter) THEN Leave("loop", "running", l3, sh)
        ELSE Leave("post", "exhausted", l3, sh)

\* weights is the inverse of the moments of weight*object
SubtractWeights(l, sh, weights) ==
    IF ~weights.ok THEN Leave("post", "failure", l, AddFlag(sh, {SHAPE_UNWEIGHTED}))
    ELSE The({NewSigmaW(l, sh, weights2) :
              weights2 \in {getWeights(Sub(weights.w11, l.w11), Sub(weights.w12, l.w12),
                                       Sub(weights.w22, l.w22))}})

UpdateWeights(l, sh, sigma11_ow, sigma12_ow, sigma22_ow) ==
    The({SubtractWeights(l, sh, weights) :
         weights \in {getWeights(sigma11_ow, sigma12_ow, sigma22_ow)}})

\* from the amplitude to the convergence test
AfterCalcmom(l, sh, in, detW) ==
    LET l1 == [l EXCEPT !.ampW = Div(l.sum, Mul(PI, Sqrt(detW)))]
        x == Div(l.sumx, l.sum)
        y == Div(l.sumy, l.sum)
        shifted == Gt(Fabs(Sub(x, in.xcen)), in.shiftmax)
                   \/ Gt(Fabs(Sub(y, in.ycen)), in.shiftmax)
        sh1 == [sh EXCEPT !.x = x, !.y = y,
                          !.flags = IF shifted THEN @ \cup {SHAPE_SHIFT} ELSE @]
        sigma11_ow == Div(l.sumxx, l.sum)
        sigma22_ow == Div(l.sumyy, l.sum)
        sigma12_ow == Div(l.sumxy, l.sum)
        d == Add(sigma11_ow, sigma22_ow)
        e1 == Div(Sub(sigma11_ow, sigma22_ow), d)
        e2 == Div(Scale(2, sigma12_ow), d)
        l2 == [l1 EXCEPT !.e1_old = e1, !.e2_old = e2, !.sigma11_ow_old = sigma11_ow]
    IN  IF Le(sigma11_ow, 0) \/ Le(sigma22_ow, 0)
        THEN Leave("post", "failure", l1, AddFlag(sh1, {SHAPE_UNWEIGHTED}))
        ELSE IF Converged(l1, e1, e2, sigma11_ow)
        THEN Leave("post", "converged", l1, sh1)
        ELSE UpdateWeights(l2, sh1, sigma11_ow, sigma12_ow, sigma22_ow)

\* one round of the loop
\* l has the box and the weights of this round
RoundResult(l, sh, in, cm, detW) ==
    IF cm.aborted THEN Leave("aborted", "aborted", l, sh)
    ELSE IF cm.ret < 0
    THEN Leave("post", "failure", StoreSums(l, cm, TRUE), AddFlag(sh, {SHAPE_UNWEIGHTED}))
    ELSE AfterCalcmom(StoreSums(l, cm, TRUE), sh, in, detW)

\* the call of calcmom in the loop
RoundCalcmom(l, sh, in, detW) ==
    The({RoundResult(l, sh, in, cm, detW) :
         cm \in {calcmom(FALSE, in.image, in.xcen, in.ycen, l.bbox, in.bkgd,
                         l.interpflag, l.w11, l.w12, l.w22)}})

\* variant: the assertion comes before the test of getWeights' result
RoundWeightsAssertFirst(l, sh, in, weights) ==
    IF ~LoopAssert(l) THEN Leave("aborted", "aborted", l, sh)
    ELSE IF ~weights.ok THEN Leave("post", "failure", l, AddFlag(sh, {SHAPE_UNWEIGHTED}))
    ELSE RoundCalcmom(SolveWeights(l, weights), sh, in, weights.det)

\* l has the box of this round
RoundWeights(l, sh, in, weights) ==
    IF ~weights.ok THEN Leave("post", "failure", l, AddFlag(sh, {SHAPE_UNWEIGHTED}))
    ELSE IF ~LoopAssert(l) THEN Leave("aborted", "aborted", l, sh)
    ELSE RoundCalcmom(SolveWeights(l, weights), sh, in, weights.det)

RoundStep(l, sh, in, nanCast) ==
    The({RoundWeights([l EXCEPT !.bbox = bbox], sh, in, weights) :
         bbox \in {set_amom_bbox(in.image.width, in.image.height, in.xcen, in.ycen,
                                 l.sigma11W, l.sigma22W, nanCast)},
         weights \in {getWeights(l.sigma11W, l.sigma12W, l.sigma22W)}})

(***************************************************************************)
(* getAdaptiveMoments after the loop                                       *)
(***************************************************************************)
\* values an object without an initial value may be read as
Garbage == {NaN, 0 - S, 0, S}

\* variant: running out of iterations does not ask for the unweighted pass
MaxIterFlagsOnly(flags) == flags \cup {SHAPE_MAXITER}

\* the flags set when the loop ran out of iterations
MaxIterFlags(flags) == flags \cup {SHAPE_MAXITER, SHAPE_UNWEIGHTED}

\* the two tests between the loop and the unweighted pass; gxx and gyy are
\* what sumxx and sumyy read as if calcmom never assigned them
LoopEndFlags(l, flags, gxx, gyy) ==
    LET f1 == IF l.iter = MAXIT THEN MaxIterFlags(flags) ELSE flags
        sumxx == IF l.written THEN l.sumxx ELSE gxx
        sumyy == IF l.written THEN l.sumyy ELSE gyy
    IN  IF Add(sumxx, sumyy) = 0 THEN f1 \cup {SHAPE_UNWEIGHTED} ELSE f1

\* the unweighted pass failing without a flag and without the moments of a
\* single pixel
UnweightedResultUnflagged(l, sh, cm, gsum) ==
    LET l1 == [l EXCEPT !.w11 = 0, !.w12 = 0, !.w22 = 0]
        l2 == StoreSums(l1, cm, FALSE)
        sum == IF l2.written THEN l2.sum ELSE gsum
        l3 == [l2 EXCEPT !.sigma11W = Div(l2.sumxx, l2.sum),
                         !.sigma12W = Div(l2.sumxy, l2.sum),
                         !.sigma22W = Div(l2.sumyy, l2.sum)]
    IN  IF cm.ret < 0 \/ Le(sum, 0)
        THEN [failed |-> TRUE, l |-> l2, sh |-> sh]
        ELSE [failed |-> FALSE, l |-> l3, sh |-> sh]

\* the unweighted pass; gsum is what sum reads as if never assigned
UnweightedResult(l, sh, cm, gsum) ==
    LET l1 == [l EXCEPT !.w11 = 0, !.w12 = 0, !.w22 = 0]
        l2 == StoreSums(l1, cm, FALSE)
        sum == IF l2.written THEN l2.sum ELSE gsum
        bad == [sh EXCEPT !.flags = (@ \ {SHAPE_UNWEIGHTED}) \cup {SHAPE_UNWEIGHTED_BAD}]
        l3 == [l2 EXCEPT !.sigma11W = Div(l2.sumxx, l2.sum),
                         !.sigma12W = Div(l2.sumxy, l2.sum),
                         !.sigma22W = Div(l2.sumyy, l2.sum)]
    IN  IF cm.ret < 0 \/ Le(sum, 0)
        THEN [failed |-> TRUE, l |-> l2,
              sh |-> IF Gt(sum, 0)
                     THEN [bad EXCEPT !.ixx = iMin, !.ixy = 0, !.iyy = iMin]
                     ELSE bad]
        ELSE [failed |-> FALSE, l |-> l3, sh |-> sh]

UnweightedStep(l, sh, in, gsum) ==
    The({UnweightedResult(l, sh, cm, gsum) :
         cm \in {calcmom(FALSE, in.image, in.xcen, in.ycen, l.bbox, in.bkgd,
                         l.interpflag, 0, 0, 0)}})

\* variant: the moments of weight*object of the last round are handed over
FinalMomentsRaw(l) ==
    [ixx |-> Div(l.sumxx, l.sum), ixy |-> Div(l.sumxy, l.sum), iyy |-> Div(l.sumyy, l.sum)]

\* the second moments handed to the shape
FinalMoments(l) == [ixx |-> l.sigma11W, ixy |-> l.sigma12W, iyy |-> l.sigma22W]

\* variant: the covariance is computed after the unweighted pass too
WantsCovarAlways(sh, in) ==
    LET ix == positionToIndex(in.xcen)
        iy == positionToIndex(in.ycen)
    IN  /\ Add(sh.ixx, sh.iyy) # 0
        /\ ix >= 0 /\ ix < in.image.width /\ iy >= 0 /\ iy < in.image.height
        /\ Gt(getVariance(in.image, ix, iy), 0)

\* the guards around calc_fisher
WantsCovar(sh, in) ==
    LET ix == positionToIndex(in.xcen)
        iy == positionToIndex(in.ycen)
    IN  /\ Add(sh.ixx, sh.iyy) # 0
        /\ ix >= 0 /\ ix < in.image.width /\ iy >= 0 /\ iy < in.image.height
        /\ Gt(getVariance(in.image, ix, iy), 0)
        /\ SHAPE_UNWEIGHTED \notin sh.flags

\* the setters and the covariance; gs4 is what sums4 reads as if never
\* assigned.  covar holds element (0, 0) of the Fisher matrix in place of
\* the inverted matrix.
FinishStep(l, sh, in, gs4) ==
    LET mom == FinalMoments(l)
        sums4 == IF l.s4written THEN l.sums4 ELSE gs4
        sh1 == [sh EXCEPT !.i0 = l.ampW, !.ixx = mom.ixx, !.ixy = mom.ixy,
                          !.iyy = mom.iyy, !.ixy4 = Div(sums4, l.sum)]
        fisher == calc_fisher(sh1, getVariance(in.image, positionToIndex(in.xcen),
                                               positionToIndex(in.ycen)))
    IN  IF ~WantsCovar(sh1, in) THEN [thrown |-> FALSE, covar |-> FALSE, sh |-> sh1]
        ELSE IF fisher.thrown THEN [thrown |-> TRUE, covar |-> FALSE, sh |-> sh1]
        ELSE [thrown |-> FALSE, covar |-> TRUE, sh |-> [sh1 EXCEPT !.covar = fisher.F]]

\* variant: the flags are overwritten rather than added to
NaNCentreFlagsOnly(flags) == {SHAPE_UNWEIGHTED_BAD}

\* the flags after the test for a NaN centre
NaNCentreFlags(flags) == flags \cup {SHAPE_UNWEIGHTED_BAD}

(***************************************************************************)
(* The calls.  Every call of a behaviour gets the same arguments and the   *)
(* same initial shape record; the calls run one after the other.           *)
(***************************************************************************)
NCalls == 2
NScenarios == 14

Calls == 1 .. NCalls

NoVar == <<>>

\* a variance plane with the same value everywhere
Plane(width, height, v) == [i \in 1 .. height |-> [j \in 1 .. width |-> v]]

Image(pix, variance) ==
    [width |-> Len(pix[1]), height |-> Len(pix), pix |-> pix, variance |-> variance]

\* a default-constructed shape and one left by an earlier measurement
FreshShape ==
    [flags |-> {}, x |-> NaN, y |-> NaN, i0 |-> NaN, ixx |-> NaN, ixy |-> NaN,
     iyy |-> NaN, ixy4 |-> NaN, covar |-> NaN]

UsedShape ==
    [flags |-> {SHAPE_SHIFT}, x |-> S, y |-> S, i0 |-> 10 * S, ixx |-> 2 * S,
     ixy |-> 0, iyy |-> 2 * S, ixy4 |-> S, covar |-> S]

\* the arguments of getAdaptiveMoments
Scenarios == <<
    \* 1: converges; covariance written
    [image |-> Image(<<<<0, 1, 0>>, <<1, 0, 0>>, <<0, 0, 1>>>>, Plane(3, 3, S)),
     bkgd |-> 0, xcen |-> 0, ycen |-> S \div 2, shiftmax |-> 2 * S,
     shape0 |-> FreshShape],
    \* 2: converges; plain Image
    [image |-> Image(<<<<0, 1, 0>>, <<1, 0, 0>>, <<0, 0, 1>>>>, NoVar),
     bkgd |-> 0, xcen |-> 0, ycen |-> S \div 2, shiftmax |-> 2 * S,
     shape0 |-> FreshShape],
    \* 3: converges; variance 0 at the centre
    [image |-> Image(<<<<0, 0, 1>>, <<0, 1, 0>>, <<0, 1, 0>>>>, Plane(3, 3, 0)),
     bkgd |-> 0, xcen |-> S \div 2, ycen |-> 2 * S, shiftmax |-> 2 * S,
     shape0 |-> UsedShape],
    \* 4: converges to a shape with determinant 0
    [image |-> Image(<<<<1, 1, 5>>, <<100, 0, 0>>, <<2, 0, 0>>>>, Plane(3, 3, S)),
     bkgd |-> 0, xcen |-> S, ycen |-> (3 * S) \div 2, shiftmax |-> 2 * S,
     shape0 |-> FreshShape],
    \* 5: interpolation starts in round 2; converges
    [image |-> Image(<<<<2, 0>>, <<5, 5>>>>, Plane(2, 2, S)),
     bkgd |-> 0, xcen |-> (5 * S) \div 4, ycen |-> (5 * S) \div 4, shiftmax |-> 2 * S,
     shape0 |-> FreshShape],
    \* 6: interpolation starts in round 95; 100 iterations; unweighted
    [image |-> Image(<<<<1, 0>>, <<1, 2>>>>, Plane(2, 2, S)),
     bkgd |-> 0, xcen |-> S \div 2, ycen |-> (3 * S) \div 2, shiftmax |-> 2 * S,
     shape0 |-> FreshShape],
    \* 7: interpolation starts in round 5; 100 iterations; unweighted pass fails
    [image |-> Image(<<<<2, -1, -1>>, <<3, 3, 0>>>>, NoVar),
     bkgd |-> 0, xcen |-> S \div 2, ycen |-> (7 * S) \div 4, shiftmax |-> 2 * S,
     shape0 |-> FreshShape],
    \* 8: calcmom fails in round 0; unweighted
    [image |-> Image(<<<<0, 0, 1>>, <<2, 0, 0>>, <<1, 0, 1>>>>, Plane(3, 3, S)),
     bkgd |-> S \div 2, xcen |-> S \div 4, ycen |-> S \div 4, shiftmax |-> 2 * S,
     shape0 |-> FreshShape],
    \* 9: unweighted pass fails with sum > 0
    [image |-> Image(<<<<0, 0, 2>>, <<0, 0, 0>>, <<0, 0, 0>>>>, Plane(3, 3, 0)),
     bkgd |-> 0, xcen |-> S, ycen |-> 0, shiftmax |-> S \div 4,
     shape0 |-> UsedShape],
    \* 10: unweighted pass fails with sum < 0
    [image |-> Image(<<<<0, 0, -1>>, <<0, 0, 0>>, <<0, 0, 0>>>>, Plane(3, 3, S)),
     bkgd |-> 0, xcen |-> 2 * S, ycen |-> (5 * S) \div 4, shiftmax |-> S \div 4,
     shape0 |-> UsedShape],
    \* 11: centre far outside: the box misses the image
    [image |-> Image(<<<<-1, 0, 0>>, <<0, 0, 0>>, <<1, 0, 0>>>>, Plane(3, 3, S)),
     bkgd |-> 0, xcen |-> 10 * S, ycen |-> (5 * S) \div 4, shiftmax |-> S \div 4,
     shape0 |-> FreshShape],
    \* 12: NaN centre
    [image |-> Image(<<<<0, 1, 0>>, <<1, 4, 1>>, <<0, 1, 0>>>>, Plane(3, 3, S)),
     bkgd |-> 0, xcen |-> NaN, ycen |-> S, shiftmax |-> 2 * S,
     shape0 |-> UsedShape],
    \* 13: single pixel: NaN weights after round 0
    [image |-> Image(<<<<0, 0, 0>>, <<0, 1, 0>>, <<0, 0, 0>>>>, Plane(3, 3, S)),
     bkgd |-> 0, xcen |-> (5 * S) \div 2, ycen |-> (9 * S) \div 4, shiftmax |-> S \div 4,
     shape0 |-> FreshShape],
    \* 14: interpolation starts in round 1; the centroid shifts; converges
    [image |-> Image(<<<<1, 5>>, <<0, 0>>>>, Plane(2, 2, S)),
     bkgd |-> 0, xcen |-> (3 * S) \div 2, ycen |-> S \div 2, shiftmax |-> S \div 4,
     shape0 |-> FreshShape],
    \* 15: converges; centre pixel outside the image
    [image |-> Image(<<<<0, 1, 0>>, <<1, 0, 2>>, <<0, 1, 1>>>>, Plane(3, 3, S)),
     bkgd |-> 0, xcen |-> (5 * S) \div 2, ycen |-> (5 * S) \div 4, shiftmax |-> 2 * S,
     shape0 |-> FreshShape],
    \* 16: 100 iterations without interpolation; unweighted
    [image |-> Image(<<<<2, 1>>, <<2, -1>>>>, Plane(2, 2, S)),
     bkgd |-> 0, xcen |-> S \div 2, ycen |-> (5 * S) \div 4, shiftmax |-> 2 * S,
     shape0 |-> UsedShape],
    \* 17: empty image
    [image |-> Image(<<<<0, 0, 0>>, <<0, 0, 0>>, <<0, 0, 0>>>>, Plane(3, 3, S)),
     bkgd |-> 0, xcen |-> S, ycen |-> S, shiftmax |-> 2 * S,
     shape0 |-> FreshShape],
    \* 18: NaN centre, fresh shape
    [image |-> Image(<<<<0, 1, 0>>, <<1, 4, 1>>, <<0, 1, 0>>>>, NoVar),
     bkgd |-> 0, xcen |-> S, ycen |-> NaN, shiftmax |-> 2 * S,
     shape0 |-> FreshShape]
    >>

\* static_cast<int>(NaN): INT_MIN on x86, 0 on ARM
NanCasts == {INT_MIN, 0}

VARIABLES
    inp,        \* the arguments, shape0 being the shape as it is passed in
    nanCast,    \* what the build makes of static_cast<int>(NaN)
    pc,         \* where each call is
    loc,        \* each call's locals
    shape,      \* each call's shape record
    ret,        \* each call's return value
    hist,       \* per call: how the loop was left, calcmom runs, ...
    steps       \* per call: the steps taken so far

vars == <<inp, nanCast, pc, loc, shape, ret, hist, steps>>

Final == {"done", "thrown", "aborted"}

InitHist == [how |-> "running", nloop |-> 0, nfb |-> 0, latchIter |-> -1, covar |-> FALSE]

Init ==
    /\ inp \in {Scenarios[k] : k \in 1 .. NScenarios}
    /\ nanCast \in NanCasts
    /\ pc = [c \in Calls |-> "start"]
    /\ loc = [c \in Calls |-> InitLocals]
    /\ shape = [c \in Calls |-> inp.shape0]
    /\ ret = [c \in Calls |-> "none"]
    /\ hist = [c \in Calls |-> InitHist]
    /\ steps = [c \in Calls |-> 0]

\* call c runs when the calls before it have ended
Turn(c) == \A d \in Calls : d < c => pc[d] \in Final

\* call c has taken one more step
Stepped(c) == steps' = [steps EXCEPT ![c] = @ + 1]

\* the declarations and the test for a NaN centre
StepEnter(c) ==
    /\ pc[c] = "start"
    /\ IF IsNaN(inp.xcen) \/ IsNaN(inp.ycen)
       THEN /\ shape' = [shape EXCEPT ![c].flags = NaNCentreFlags(@)]
            /\ ret' = [ret EXCEPT ![c] = "false"]
            /\ pc' = [pc EXCEPT ![c] = "done"]
            /\ hist' = [hist EXCEPT ![c].how = "nan"]
       ELSE /\ pc' = [pc EXCEPT ![c] = "loop"]
            /\ UNCHANGED <<shape, ret, hist>>
    /\ Stepped(c)
    /\ UNCHANGED <<inp, nanCast, loc>>

Enter(c) == Turn(c) /\ StepEnter(c)

\* one round of the loop on locals that all calls share, as statics would be
StepRoundShared(c) ==
    /\ pc[c] = "loop"
    /\ \E r \in {RoundStep(loc[1], shape[c], inp, nanCast)},
          weights \in {getWeights(loc[1].sigma11W, loc[1].sigma12W, loc[1].sigma22W)} :
           /\ pc' = [pc EXCEPT ![c] = r.next]
           /\ loc' = [loc EXCEPT ![c] = r.l]
           /\ shape' = [shape EXCEPT ![c] = r.sh]
           /\ hist' = [hist EXCEPT
                  ![c].how = r.how,
                  ![c].nloop = IF weights.ok /\ LoopAssert(loc[1]) THEN @ + 1 ELSE @,
                  ![c].latchIter = IF weights.ok /\ LoopAssert(loc[1])
                                      /\ Latches(loc[1], weights)
                                   THEN loc[1].iter ELSE @]
    /\ Stepped(c)
    /\ UNCHANGED <<inp, nanCast, ret>>

\* one round of the loop
StepRound(c) ==
    /\ pc[c] = "loop"
    /\ \E r \in {RoundStep(loc[c], shape[c], inp, nanCast)},
          weights \in {getWeights(loc[c].sigma11W, loc[c].sigma12W, loc[c].sigma22W)} :
           /\ pc' = [pc EXCEPT ![c] = r.next]
           /\ loc' = [loc EXCEPT ![c] = r.l]
           /\ shape' = [shape EXCEPT ![c] = r.sh]
           /\ hist' = [hist EXCEPT
                  ![c].how = r.how,
                  ![c].nloop = IF weights.ok /\ LoopAssert(loc[c]) THEN @ + 1 ELSE @,
                  ![c].latchIter = IF weights.ok /\ LoopAssert(loc[c])
                                      /\ Latches(loc[c], weights)
                                   THEN loc[c].iter ELSE @]
    /\ Stepped(c)
    /\ UNCHANGED <<inp, nanCast, ret>>

Round(c) == Turn(c) /\ StepRound(c)

\* the tests after the loop
StepLoopEnd(c) ==
    /\ pc[c] = "post"
    /\ \E gxx \in Garbage, gyy \in Garbage :
           \E flags \in {LoopEndFlags(loc[c], shape[c].flags, gxx, gyy)} :
               /\ shape' = [shape EXCEPT ![c].flags = flags]
               /\ pc' = [pc EXCEPT ![c] = IF SHAPE_UNWEIGHTED \in flags
                                          THEN "fallback" ELSE "finish"]
    /\ Stepped(c)
    /\ UNCHANGED <<inp, nanCast, loc, ret, hist>>

LoopEnd(c) == Turn(c) /\ StepLoopEnd(c)

\* the unweighted pass
StepUnweighted(c) ==
    /\ pc[c] = "fallback"
    /\ \E gsum \in Garbage :
           \E r \in {UnweightedStep(loc[c], shape[c], inp, gsum)} :
               /\ loc' = [loc EXCEPT ![c] = r.l]
               /\ shape' = [shape EXCEPT ![c] = r.sh]
               /\ pc' = [pc EXCEPT ![c] = IF r.failed THEN "done" ELSE "finish"]
               /\ ret' = [ret EXCEPT ![c] = IF r.failed THEN "false" ELSE @]
    /\ hist' = [hist EXCEPT ![c].nfb = @ + 1]
    /\ Stepped(c)
    /\ UNCHANGED <<inp, nanCast>>

Unweighted(c) == Turn(c) /\ StepUnweighted(c)

\* the results and the covariance
StepFinish(c) ==
    /\ pc[c] = "finish"
    /\ \E gs4 \in Garbage :
           \E r \in {FinishStep(loc[c], shape[c], inp, gs4)} :
               /\ shape' = [shape EXCEPT ![c] = r.sh]
               /\ pc' = [pc EXCEPT ![c] = IF r.thrown THEN "thrown" ELSE "done"]
               /\ ret' = [ret EXCEPT ![c] = IF r.thrown THEN @ ELSE "true"]
               /\ hist' = [hist EXCEPT ![c].covar = r.covar]
    /\ Stepped(c)
    /\ UNCHANGED <<inp, nanCast, loc>>

Finish(c) == Turn(c) /\ StepFinish(c)

Next == \E c \in Calls : Enter(c) \/ Round(c) \/ LoopEnd(c) \/ Unweighted(c) \/ Finish(c)

Spec == Init /\ [][Next]_vars

\* a step of call c as its step counter shows it: every action of call c is
\* such a step, and one can be taken as long as the call has not ended and
\* the calls before it have
Tick(c) == pc[c] \notin Final /\ Turn(c) /\ Stepped(c)

\* the calls run on one thread that is never suspended for good: a call
\* that has not ended takes its next step
FairSpec == Spec /\ \A c \in Calls : WF_steps(Tick(c))

(***************************************************************************)
(* Properties of getAdaptiveMoments                                        *)
(***************************************************************************)
BadFlags == {SHAPE_UNWEIGHTED, SHAPE_UNWEIGHTED_BAD, SHAPE_MAXITER}

NaNCentre == IsNaN(inp.xcen) \/ IsNaN(inp.ycen)

EndsConverged(c) == ret[c] = "true" /\ shape[c].flags \cap BadFlags = {}

EndsFallback(c) ==
    /\ ret[c] = "true"
    /\ SHAPE_UNWEIGHTED \in shape[c].flags
    /\ SHAPE_UNWEIGHTED_BAD \notin shape[c].flags

EndsHardFailure(c) ==
    /\ ret[c] = "false"
    /\ SHAPE_UNWEIGHTED_BAD \in shape[c].flags
    /\ SHAPE_UNWEIGHTED \notin shape[c].flags

\* the second moments of a shape record
Moments(sh) == <<sh.ixx, sh.ixy, sh.iyy>>

\* the moments the unweighted pass computes for call c
UnweightedMoments(c) ==
    LET m == calcmom(FALSE, inp.image, inp.xcen, inp.ycen, loc[c].bbox, inp.bkgd,
                     loc[c].interpflag, 0, 0, 0).m
    IN  <<Div(m.sumxx, m.sum), Div(m.sumxy, m.sum), Div(m.sumyy, m.sum)>>

C2_Terminates ==
    /\ [](\A c \in Calls :
            /\ hist[c].nloop <= MAXIT + 1
            /\ hist[c].nloop > MAXIT => hist[c].latchIter > 0
            /\ hist[c].nfb <= 1)
    /\ <>(\A c \in Calls : pc[c] \in Final)

C2_Witness ==
    \E c \in Calls : pc[c] = "done" /\ hist[c].nloop = MAXIT + 1 /\ hist[c].nfb = 1

\* C3: MAXITER is set exactly when the loop used up its MAXIT counted
\* iterations; such a call goes through the unweighted pass and ends either
\* with UNWEIGHTED and the unweighted moments, returning true, or with
\* UNWEIGHTED_BAD, returning false.
C3_MaxIter ==
    \A c \in Calls :
        /\ SHAPE_MAXITER \in shape[c].flags
              => hist[c].how = "exhausted" /\ loc[c].iter = MAXIT
        /\ (pc[c] \in Final /\ hist[c].how = "exhausted") =>
              /\ SHAPE_MAXITER \in shape[c].flags
              /\ hist[c].nfb = 1
              /\ \/ EndsFallback(c) /\ Moments(shape[c]) = UnweightedMoments(c)
                 \/ EndsHardFailure(c)

C3_Witness ==
    \E c \in Calls :
        /\ pc[c] = "done"
        /\ hist[c].how = "exhausted"
        /\ SHAPE_MAXITER \in shape[c].flags
        /\ EndsFallback(c)

\* C4: when the unweighted pass fails or its sum is not positive, the call is
\* a hard failure with UNWEIGHTED_BAD and the moments (1/12, 0, 1/12);
\* otherwise the unweighted moments are reported.
C4_DefaultMoments ==
    \A c \in Calls :
        (pc[c] = "done" /\ hist[c].nfb = 1) =>
            IF ret[c] = "false"
            THEN EndsHardFailure(c) /\ Moments(shape[c]) = <<iMin, 0, iMin>>
            ELSE EndsFallback(c) /\ Moments(shape[c]) = UnweightedMoments(c)

\* C5 as stated: a converged call reports sumxx/sum, sumxy/sum, sumyy/sum of
\* its last round.
C5_RawMoments ==
    \A c \in Calls :
        (pc[c] = "done" /\ hist[c].how = "converged" /\ EndsConverged(c)) =>
            Moments(shape[c]) = <<Div(loc[c].sumxx, loc[c].sum),
                                  Div(loc[c].sumxy, loc[c].sum),
                                  Div(loc[c].sumyy, loc[c].sum)>>

\* C5: a converged call reports the moments of the weighting function of its
\* last round, sigma11W, sigma12W, sigma22W, whose weights that round used.
C5_WeightMoments ==
    \A c \in Calls :
        (pc[c] = "done" /\ hist[c].how = "converged" /\ EndsConverged(c)) =>
            /\ Moments(shape[c]) = <<loc[c].sigma11W, loc[c].sigma12W, loc[c].sigma22W>>
            /\ hist[c].latchIter # loc[c].iter =>
                  LET weights == getWeights(shape[c].ixx, shape[c].ixy, shape[c].iyy)
                  IN  /\ weights.ok
                      /\ <<weights.w11, weights.w12, weights.w22>>
                             = <<loc[c].w11, loc[c].w12, loc[c].w22>>

C5_Witness ==
    \E c \in Calls :
        /\ pc[c] = "done" /\ hist[c].how = "converged" /\ EndsConverged(c)
        /\ loc[c].iter > 0
        /\ shape[c].ixx # Div(loc[c].sumxx, loc[c].sum)

\* the variance at the pixel of the centre, NaN where there is none
CentreVariance ==
    LET ix == positionToIndex(inp.xcen)
        iy == positionToIndex(inp.ycen)
    IN  IF ix >= 0 /\ ix < inp.image.width /\ iy >= 0 /\ iy < inp.image.height
        THEN getVariance(inp.image, ix, iy) ELSE NaN

\* C6: the covariance is written only after convergence, never after the
\* unweighted pass, MAXITER or a hard failure, and never without a variance
\* plane or where the variance is not positive; otherwise it keeps its value.
C6_Covariance ==
    \A c \in Calls :
        /\ hist[c].covar =>
              /\ hist[c].how = "converged"
              /\ hist[c].nfb = 0
              /\ shape[c].flags \cap BadFlags = {}
              /\ ret[c] = "true"
              /\ inp.image.variance # NoVar
              /\ Gt(CentreVariance, 0)
        /\ ~hist[c].covar => shape[c].covar = inp.shape0.covar

C6_Witness ==
    \E c \in Calls :
        /\ pc[c] = "done" /\ hist[c].covar
        /\ shape[c].covar # inp.shape0.covar

C8_Deterministic ==
    \A c, d \in Calls :
        (pc[c] \in Final /\ pc[d] \in Final) =>
            /\ pc[c] = pc[d]
            /\ ret[c] = ret[d]
            /\ shape[c] = shape[d]

\* C9: with a NaN centre the call returns false, adds UNWEIGHTED_BAD to the
\* flags, runs calcmom neither in the loop nor unweighted, and leaves every
\* other field of the shape as it was.
C9_NaNCentre ==
    \A c \in Calls :
        (NaNCentre /\ pc[c] # "start") =>
            /\ pc[c] = "done"
            /\ ret[c] = "false"
            /\ shape[c] = [inp.shape0 EXCEPT !.flags = @ \cup {SHAPE_UNWEIGHTED_BAD}]
            /\ hist[c].nloop = 0 /\ hist[c].nfb = 0 /\ ~hist[c].covar
            /\ loc[c] = InitLocals

C9_Witness ==
    \E c \in Calls :
        /\ NaNCentre /\ pc[c] = "done"
        /\ inp.shape0.flags # {}
        /\ inp.shape0.flags \subseteq shape[c].flags

\* a round of call c in which interpolation is switched on after round 0
LatchRound(c) ==
    LET weights == getWeights(loc[c].sigma11W, loc[c].sigma12W, loc[c].sigma22W)
    IN  /\ pc[c] = "loop"
        /\ (pc'[c] # pc[c] \/ loc'[c] # loc[c])
        /\ weights.ok /\ LoopAssert(loc[c])
        /\ Latches(loc[c], weights)
        /\ loc[c].iter > 0

\* C10: a round after the first that switches interpolation on accumulates
\* with the weights of the round before and with interpolation, and does not
\* count: the next round starts with the same iter.  The flag stays on for
\* the rest of the call, the unweighted pass included.
C10_Latch ==
    [][\A c \in Calls :
          /\ LatchRound(c) =>
                /\ loc'[c].interpflag
                /\ <<loc'[c].w11, loc'[c].w12, loc'[c].w22>>
                       = <<loc[c].w11, loc[c].w12, loc[c].w22>>
                /\ LET cm == calcmom(FALSE, inp.image, inp.xcen, inp.ycen,
                                     loc'[c].bbox, inp.bkgd, TRUE,
                                     loc[c].w11, loc[c].w12, loc[c].w22)
                   IN  cm.written =>
                          /\ loc'[c].sum = cm.m.sum
                          /\ loc'[c].sumxx = cm.m.sumxx
                          /\ loc'[c].sumxy = cm.m.sumxy
                          /\ loc'[c].sumyy = cm.m.sumyy
                /\ pc'[c] = "loop" => loc'[c].iter = loc[c].iter
          /\ loc[c].interpflag => loc'[c].interpflag
          /\ (pc[c] = "fallback" /\ pc'[c] = "finish" /\ loc[c].interpflag) =>
                <<loc'[c].sigma11W, loc'[c].sigma12W, loc'[c].sigma22W>>
                    = UnweightedMoments(c)
      ]_vars

C10_Witness ==
    \E c \in Calls :
        /\ pc[c] = "loop"
        /\ hist[c].latchIter > 0
        /\ loc[c].iter = hist[c].latchIter
        /\ loc[c].interpflag

\* C11: the convergence test passes only with iter > 0: a converged call has
\* run calcmom at least twice in the loop, and neither round 0 nor a round
\* whose counter the start of interpolation took back to 0 converges.
C11_AfterRoundZero ==
    \A c \in Calls :
        hist[c].how = "converged" => loc[c].iter > 0 /\ hist[c].nloop >= 2

C11_Witness ==
    \E c \in Calls :
        /\ pc[c] = "done" /\ hist[c].how = "converged"
        /\ hist[c].latchIter = 1
        /\ hist[c].nloop > loc[c].iter + 1

\* the inverse of the next guess at the weighting function that step 8
\* computes from the sums and weights in l
NextGuess(l) ==
    LET ow == getWeights(Div(l.sumxx, l.sum), Div(l.sumxy, l.sum), Div(l.sumyy, l.sum))
    IN  <<Sub(ow.w11, l.w11), Sub(ow.w12, l.w12), Sub(ow.w22, l.w22)>>

\* n is neither negative nor singular
PositiveDefinite(n) ==
    /\ Gt(n[1], 0)
    /\ Gt(n[3], 0)
    /\ Ge(Sub(Mul(n[1], n[3]), Mul(n[2], n[2])), FLT_EPSILON)

\* C12: the loop goes on to another round only when the inverse covariance
\* that step 8 subtracted is neither negative nor singular.
C12_StepEight ==
    \A c \in Calls :
        (pc[c] = "loop" /\ loc[c].written) => PositiveDefinite(NextGuess(loc[c]))

\* call c takes a round of the loop
RoundOf(c) == pc[c] = "loop" /\ (pc'[c] # pc[c] \/ loc'[c] # loc[c])

\* C13: a round changes only x, y and the flags of the shape; it sets x, y to
\* sumx/sum, sumy/sum and adds SHIFT when they are more than shiftmax from
\* the centre passed in; the shift decides nothing else in the round; SHIFT
\* is never cleared; box and sums are taken about the centre passed in.
C13_Centroid ==
    [][\A c \in Calls :
          /\ SHAPE_SHIFT \in shape[c].flags => SHAPE_SHIFT \in shape'[c].flags
          /\ inp' = inp
          /\ RoundOf(c) =>
                \E cm \in {calcmom(FALSE, inp.image, inp.xcen, inp.ycen, loc'[c].bbox,
                                   inp.bkgd, loc'[c].interpflag,
                                   loc'[c].w11, loc'[c].w12, loc'[c].w22)},
                   far \in {RoundStep(loc[c], shape[c], [inp EXCEPT !.shiftmax = BIG],
                                      nanCast)} :
                    /\ shape'[c] = [shape[c] EXCEPT !.x = shape'[c].x,
                                                    !.y = shape'[c].y,
                                                    !.flags = shape'[c].flags]
                    /\ shape[c].flags \subseteq shape'[c].flags
                    /\ shape'[c].flags \subseteq
                           shape[c].flags \cup {SHAPE_SHIFT, SHAPE_UNWEIGHTED}
                    /\ loc'[c].bbox = set_amom_bbox(inp.image.width, inp.image.height,
                                                    inp.xcen, inp.ycen, loc[c].sigma11W,
                                                    loc[c].sigma22W, nanCast)
                    /\ far.next = pc'[c] /\ far.l = loc'[c]
                    /\ IF hist'[c].nloop > hist[c].nloop /\ cm.ret = 0
                       THEN /\ loc'[c].sumx = cm.m.sumx /\ loc'[c].sumy = cm.m.sumy
                            /\ loc'[c].sum = cm.m.sum
                            /\ shape'[c].x = Div(cm.m.sumx, cm.m.sum)
                            /\ shape'[c].y = Div(cm.m.sumy, cm.m.sum)
                            /\ SHAPE_SHIFT \in shape'[c].flags <=>
                                  \/ SHAPE_SHIFT \in shape[c].flags
                                  \/ Gt(Fabs(Sub(shape'[c].x, inp.xcen)), inp.shiftmax)
                                  \/ Gt(Fabs(Sub(shape'[c].y, inp.ycen)), inp.shiftmax)
                       ELSE /\ shape'[c].x = shape[c].x /\ shape'[c].y = shape[c].y
                            /\ SHAPE_SHIFT \in shape'[c].flags <=>
                                  SHAPE_SHIFT \in shape[c].flags
      ]_vars

C13_Witness ==
    \E c \in Calls :
        /\ pc[c] = "done" /\ EndsConverged(c)
        /\ SHAPE_SHIFT \in shape[c].flags
        /\ SHAPE_SHIFT \notin inp.shape0.flags
        /\ Gt(Fabs(Sub(shape[c].x, inp.xcen)), inp.shiftmax)


(***************************************************************************)
(* getFixedMomentsFlux: the flux within fixed moments.  The result is the  *)
(* pair returned, or aborted when calcmom's assert fails.                  *)
(***************************************************************************)
FluxResult(cm) ==
    IF cm.aborted THEN [flux |-> NaN, fluxErr |-> NaN, aborted |-> TRUE]
    ELSE [flux |-> IF cm.written THEN cm.m.sum ELSE 0, fluxErr |-> NaN,
          aborted |-> FALSE]

FluxWeights(image, bkgd, xcen, ycen, sh, bbox, weights) ==
    IF ~weights.ok THEN [flux |-> NaN, fluxErr |-> NaN, aborted |-> FALSE]
    ELSE The({FluxResult(cm) :
              cm \in {calcmom(TRUE, image, xcen, ycen, bbox, bkgd,
                              getInterp(sh.ixx, sh.iyy, weights.det),
                              weights.w11, weights.w12, weights.w22)}})

\* the flux returned as its own error
getFixedMomentsFluxWithErr(image, bkgd, xcen, ycen, sh, cast) ==
    The({[r EXCEPT !.fluxErr = r.flux] :
         r \in {FluxWeights(image, bkgd, xcen, ycen, sh,
                            set_amom_bbox(image.width, image.height, xcen, ycen,
                                          sh.ixx, sh.iyy, cast),
                            getWeights(sh.ixx, sh.ixy, sh.iyy))}})

getFixedMomentsFlux(image, bkgd, xcen, ycen, sh, cast) ==
    The({FluxWeights(image, bkgd, xcen, ycen, sh, bbox, weights) :
         bbox \in {set_amom_bbox(image.width, image.height, xcen, ycen,
                                 sh.ixx, sh.iyy, cast)},
         weights \in {getWeights(sh.ixx, sh.ixy, sh.iyy)}})

(***************************************************************************)
(* The functions called on their own.  A behaviour calls one function      *)
(* NCalls times on the same arguments.                                     *)
(***************************************************************************)
MaxSigma == 2

\* second moments, in pixels^2
SigmaVals == {NaN} \cup {k * S : k \in -1 .. MaxSigma}

Sigmas == {<<a, b, d>> : a \in SigmaVals, b \in SigmaVals, d \in SigmaVals}

\* weights as calcmom may be handed them
Weights ==
    {<<S, 0, S>>, <<12 * S, 0, 12 * S>>, <<S, S \div 2, S>>, <<0, 0, 0>>,
     <<2 * BIG, 0, S>>, <<S, 0 - 2 * BIG, S>>, <<S, 0, 0 - 2 * BIG>>, <<0 - S, 0, S>>}

FnImages ==
    {Image(<<<<1, 5>>, <<0, 0>>>>, NoVar),
     Image(<<<<0, 0, 0>>, <<0, -2, 0>>, <<0, 0, 3>>>>, NoVar)}

\* centres on the image and far off it
Centres == {<<0, 0>>, <<S, S \div 2>>, <<10 * S, S>>, <<0 - 10 * S, S>>}

\* the image, each of its pixels, and boxes that stick out of it
Boxes(image) ==
    {[minX |-> 0, maxX |-> image.width - 1, minY |-> 0, maxY |-> image.height - 1],
     [minX |-> 0, maxX |-> image.width, minY |-> 0, maxY |-> 0],
     [minX |-> 0, maxX |-> 0, minY |-> -1, maxY |-> 0]}
    \cup {[minX |-> j, maxX |-> j, minY |-> i, maxY |-> i] :
          j \in 0 .. image.width - 1, i \in 0 .. image.height - 1}

NoArgs ==
    [fn |-> "none", image |-> Image(<<<<0>>>>, NoVar), bkgd |-> 0, xcen |-> 0,
     ycen |-> 0, sigma |-> <<0, 0, 0>>, w |-> <<0, 0, 0>>,
     bbox |-> [minX |-> 0, maxX |-> 0, minY |-> 0, maxY |-> 0],
     interpflag |-> FALSE, fluxOnly |-> FALSE, i0 |-> 0, bkgd_var |-> 0]

GetWeightsArgs == {[NoArgs EXCEPT !.fn = "getWeights", !.sigma = s] : s \in Sigmas}

SetAmomBboxArgs ==
    {[NoArgs EXCEPT !.fn = "set_amom_bbox", !.image = im, !.xcen = x, !.ycen = y,
                    !.sigma = s] :
     im \in FnImages, x \in {NaN} \cup {c[1] : c \in Centres},
     y \in {c[2] : c \in Centres}, s \in {t \in Sigmas : t[2] = 0}}

CalcmomArgs ==
    UNION {{[NoArgs EXCEPT !.fn = "calcmom", !.image = im, !.xcen = c[1],
                           !.ycen = c[2], !.w = w, !.bbox = b, !.interpflag = ip,
                           !.fluxOnly = fo] :
            c \in Centres, w \in Weights, b \in Boxes(im), ip \in BOOLEAN,
            fo \in BOOLEAN} : im \in FnImages}

FixedFluxArgs ==
    {[NoArgs EXCEPT !.fn = "getFixedMomentsFlux", !.image = im, !.xcen = c[1],
                    !.ycen = c[2], !.sigma = s] :
     im \in FnImages, c \in Centres, s \in Sigmas}

\* amplitudes and background variances
Amplitudes == {S, 3 * S}

Variances == {NaN, 0 - S, 0, S, 2 * S}

CalcFisherArgs ==
    {[NoArgs EXCEPT !.fn = "calc_fisher", !.sigma = s, !.i0 = A, !.bkgd_var = v] :
     s \in Sigmas, A \in Amplitudes, v \in Variances}

\* the shape handed to getFixedMomentsFlux
ShapeOf(sigma) == [FreshShape EXCEPT !.ixx = sigma[1], !.ixy = sigma[2], !.iyy = sigma[3]]

FnInit ==
    /\ inp \in GetWeightsArgs \cup SetAmomBboxArgs \cup CalcmomArgs \cup FixedFluxArgs
               \cup CalcFisherArgs
    /\ nanCast \in NanCasts
    /\ pc = [c \in Calls |-> "start"]
    /\ loc = [c \in Calls |-> InitLocals]
    /\ shape = [c \in Calls |-> ShapeOf(inp.sigma)]
    /\ ret = [c \in Calls |-> "none"]
    /\ hist = [c \in Calls |-> InitHist]
    /\ steps = [c \in Calls |-> 0]

\* call c ends with result r
Returns(c, r) ==
    /\ ret' = [ret EXCEPT ![c] = r]
    /\ pc' = [pc EXCEPT ![c] = IF r.aborted THEN "aborted" ELSE "done"]
    /\ Stepped(c)
    /\ UNCHANGED <<inp, nanCast, loc, shape, hist>>

CallGetWeights(c) ==
    /\ pc[c] = "start"
    /\ Turn(c)
    /\ inp.fn = "getWeights"
    /\ \E r \in {getWeights(inp.sigma[1], inp.sigma[2], inp.sigma[3])} :
           Returns(c, [ok |-> r.ok, det |-> r.det, w11 |-> r.w11, w12 |-> r.w12,
                       w22 |-> r.w22, aborted |-> FALSE])

CallSetAmomBbox(c) ==
    /\ pc[c] = "start"
    /\ Turn(c)
    /\ inp.fn = "set_amom_bbox"
    /\ \E r \in {set_amom_bbox(inp.image.width, inp.image.height, inp.xcen, inp.ycen,
                               inp.sigma[1], inp.sigma[3], nanCast)} :
           Returns(c, [minX |-> r.minX, maxX |-> r.maxX, minY |-> r.minY,
                       maxY |-> r.maxY, aborted |-> FALSE])

CallCalcmom(c) ==
    /\ pc[c] = "start"
    /\ Turn(c)
    /\ inp.fn = "calcmom"
    /\ \E r \in {calcmom(inp.fluxOnly, inp.image, inp.xcen, inp.ycen, inp.bbox,
                         inp.bkgd, inp.interpflag, inp.w[1], inp.w[2], inp.w[3])} :
           Returns(c, r)

CallFixedMomentsFlux(c) ==
    /\ pc[c] = "start"
    /\ Turn(c)
    /\ inp.fn = "getFixedMomentsFlux"
    /\ \E r \in {getFixedMomentsFlux(inp.image, inp.bkgd, inp.xcen, inp.ycen,
                                     shape[c], nanCast)} :
           Returns(c, r)

CallCalcFisher(c) ==
    /\ pc[c] = "start"
    /\ Turn(c)
    /\ inp.fn = "calc_fisher"
    /\ \E r \in {calc_fisher([shape[c] EXCEPT !.i0 = inp.i0], inp.bkgd_var)} :
           /\ ret' = [ret EXCEPT ![c] = r]
           /\ pc' = [pc EXCEPT ![c] = IF r.thrown THEN "thrown" ELSE "done"]
    /\ Stepped(c)
    /\ UNCHANGED <<inp, nanCast, loc, shape, hist>>

FnNext ==
    \E c \in Calls : CallGetWeights(c) \/ CallSetAmomBbox(c) \/ CallCalcmom(c)
                     \/ CallFixedMomentsFlux(c) \/ CallCalcFisher(c)

FnSpec == FnInit /\ [][FnNext]_vars

\* call c of function fn has returned
Returned(c, fn) == inp.fn = fn /\ pc[c] = "done"


(***************************************************************************)
(* Properties of the functions                                             *)
(***************************************************************************)
\* C14: whenever getWeights reports success, the weight w11 it returns is
\* >= 0, also for sigma11 < 0 and sigma22 < 0 with a determinant >= epsilon
C14_NonNegativeWeight ==
    \A c \in Calls : Returned(c, "getWeights") /\ ret[c].ok => Ge(ret[c].w11, 0)

\* C15: getWeights(0, 0, 0) succeeds on the degenerate branch: the
\* determinant returned is 1/144, that of axes sqrt(1/12), and the weights
\* are w11 = w22 = 12, w12 = 0
C15_ZeroMoments ==
    \A c \in Calls :
        inp.fn = "getWeights" /\ inp.sigma = <<0, 0, 0>> /\ pc[c] # "start"
        => /\ pc[c] = "done"
           /\ ret[c].ok
           /\ ret[c].det = S \div 144
           /\ ret[c].w11 = 12 * S
           /\ ret[c].w12 = 0
           /\ ret[c].w22 = 12 * S

C15_Witness ==
    /\ Returned(1, "getWeights")
    /\ inp.sigma = <<0, 0, 0>>
    /\ Lt(Sub(Mul(inp.sigma[1], inp.sigma[3]), Mul(inp.sigma[2], inp.sigma[2])),
          FLT_EPSILON)
    /\ ret[1].ok


\* C16: the box set_amom_bbox returns is clipped to the image, wherever the
\* centre lies: 0 <= xmin <= xmax <= width - 1, 0 <= ymin <= ymax <= height - 1
C16_Clipped ==
    \A c \in Calls :
        Returned(c, "set_amom_bbox")
        => /\ 0 <= ret[c].minX /\ ret[c].minX <= ret[c].maxX
           /\ ret[c].maxX <= inp.image.width - 1
           /\ 0 <= ret[c].minY /\ ret[c].minY <= ret[c].maxY
           /\ ret[c].maxY <= inp.image.height - 1


\* some weight is above 1e6 in size
WeightTooBig(w) == \E k \in 1 .. 3 : Gt(Fabs(w[k]), 1000000 * S)

\* the box is not within the image
BoxOutside(bbox, image) ==
    ~(/\ 0 <= bbox.minX /\ bbox.maxX <= image.width - 1
      /\ 0 <= bbox.minY /\ bbox.maxY <= image.height - 1)

\* sum, sumxx or sumyy is not positive
SumsNotPositive(m) == ~Gt(m.sum, 0) \/ ~Gt(m.sumxx, 0) \/ ~Gt(m.sumyy, 0)

\* C17: calcmom returns -1 exactly when a weight is above 1e6 in size, the
\* box is not within the image, or, unless fluxOnly, sum, sumxx or sumyy is
\* not positive; a non-positive sum is no failure when fluxOnly, and the
\* sums are written exactly when neither the weights nor the box fail
C17_Failure ==
    \A c \in Calls :
        Returned(c, "calcmom")
        => LET rejected == WeightTooBig(inp.w) \/ BoxOutside(inp.bbox, inp.image)
           IN  /\ ret[c].ret \in {0, -1}
               /\ ret[c].ret = -1
                  <=> \/ rejected
                      \/ ~inp.fluxOnly /\ SumsNotPositive(ret[c].m)
               /\ ret[c].written <=> ~rejected
               /\ inp.fluxOnly /\ ~rejected => ret[c].ret = 0

C17_Witness ==
    /\ Returned(1, "calcmom")
    /\ inp.fluxOnly
    /\ ret[1].written
    /\ Lt(ret[1].m.sum, 0)
    /\ ret[1].ret = 0


\* the exponents at the four corners, 0.375 either side of pixel (j, i)
CornerExpons(j, i) ==
    {Expon(Sub(j * S, inp.xcen) + dx, Sub(i * S, inp.ycen) + dy,
           inp.w[1], inp.w[2], inp.w[3]) :
     dx \in {0 - (3 * S) \div 8, (3 * S) \div 8},
     dy \in {0 - (3 * S) \div 8, (3 * S) \div 8}}

\* what the 4 x 4 samples of pixel (j, i) add to the sums
CellSamples(j, i) ==
    InterpSamples(0, 15, Sub(PixelAt(inp.image, j, i), inp.bkgd),
                  Sub(j * S, inp.xcen) - (3 * S) \div 8,
                  Sub(i * S, inp.ycen) - (3 * S) \div 8,
                  inp.xcen, inp.ycen, inp.w[1], inp.w[2], inp.w[3], inp.fluxOnly)

\* call c of calcmom interpolated over a box of one pixel and returned sums
OneCell(c) ==
    /\ Returned(c, "calcmom")
    /\ inp.interpflag
    /\ ret[c].written
    /\ inp.bbox.minX = inp.bbox.maxX
    /\ inp.bbox.minY = inp.bbox.maxY

\* C18 as stated: on the interpolated path a cell is skipped only if all
\* four corner exponents exceed 9; with a corner at or below 9 it is sampled
C18_AnyCorner ==
    \A c \in Calls :
        OneCell(c)
        => ret[c].m = IF \E e \in CornerExpons(inp.bbox.minX, inp.bbox.minY) :
                             Le(e, 9 * S)
                      THEN CellSamples(inp.bbox.minX, inp.bbox.minY)
                      ELSE ZeroMoms

\* C18: on the interpolated path a cell is sampled exactly when all four
\* corner exponents are at most 9; it is skipped as soon as one exceeds 9
C18_AllCorners ==
    \A c \in Calls :
        OneCell(c)
        => ret[c].m = IF \A e \in CornerExpons(inp.bbox.minX, inp.bbox.minY) :
                             Le(e, 9 * S)
                      THEN CellSamples(inp.bbox.minX, inp.bbox.minY)
                      ELSE ZeroMoms

\* a cell with corners on both sides of 9 and a pixel that would count
C18_Witness ==
    /\ OneCell(1)
    /\ \E e \in CornerExpons(inp.bbox.minX, inp.bbox.minY) : Le(e, 9 * S)
    /\ \E e \in CornerExpons(inp.bbox.minX, inp.bbox.minY) : Gt(e, 9 * S)
    /\ CellSamples(inp.bbox.minX, inp.bbox.minY).sum # 0
    /\ ret[1].m = ZeroMoms


\* the weights getFixedMomentsFlux gets for its shape, and its box
FluxSolved == getWeights(inp.sigma[1], inp.sigma[2], inp.sigma[3])

FluxBox ==
    set_amom_bbox(inp.image.width, inp.image.height, inp.xcen, inp.ycen,
                  inp.sigma[1], inp.sigma[3], nanCast)

\* C19: getFixedMomentsFlux returns (NaN, NaN) whenever getWeights fails or
\* calcmom fails (a weight above 1e6 in size, or the box not within the
\* image); no flux other than NaN comes from a failed calcmom
C19_FailureIsNaN ==
    \A c \in Calls :
        /\ Returned(c, "getFixedMomentsFlux")
        /\ \/ ~FluxSolved.ok
           \/ WeightTooBig(<<FluxSolved.w11, FluxSolved.w12, FluxSolved.w22>>)
           \/ BoxOutside(FluxBox, inp.image)
        => IsNaN(ret[c].flux) /\ IsNaN(ret[c].fluxErr)

FisherD == Sub(Mul(inp.sigma[1], inp.sigma[3]), Mul(inp.sigma[2], inp.sigma[2]))

\* C21: calc_fisher throws exactly when the determinant Ixx*Iyy - Ixy^2 is
\* <= epsilon or the background variance is <= 0, the determinant being
\* tested first, and then returns no matrix; otherwise it returns a
\* symmetric 4 x 4 matrix
C21_Fisher ==
    \A c \in Calls :
        inp.fn = "calc_fisher" /\ pc[c] # "start"
        => /\ pc[c] \in {"done", "thrown"}
           /\ pc[c] = "thrown" <=> Le(FisherD, DBL_EPSILON) \/ Le(inp.bkgd_var, 0)
           /\ pc[c] = "thrown"
              => /\ ret[c].fisher = NoMatrix
                 /\ ret[c].why = IF Le(FisherD, DBL_EPSILON) THEN "determinant"
                                 ELSE "variance"
           /\ pc[c] = "done"
              => /\ DOMAIN ret[c].fisher = 1 .. 4
                 /\ \A i \in 1 .. 4 : DOMAIN ret[c].fisher[i] = 1 .. 4
                 /\ \A i, j \in 1 .. 4 : ret[c].fisher[i][j] = ret[c].fisher[j][i]

\* both tests fail, and the determinant is the one reported
C21_Witness ==
    /\ inp.fn = "calc_fisher"
    /\ pc[1] = "thrown"
    /\ Le(FisherD, DBL_EPSILON)
    /\ Le(inp.bkgd_var, 0)
    /\ ret[1].why = "determinant"


(***************************************************************************)
(* getAdaptiveMoments on square images that hold one level n except for    *)
(* one pixel of value v, with the centre guessed at that pixel.            *)
(***************************************************************************)
PixelDim == 3

PixelImage(dim, j, i, v, n) ==
    Image([r \in 1 .. dim |-> [k \in 1 .. dim |-> IF k = j + 1 /\ r = i + 1 THEN v ELSE n]],
          Plane(dim, dim, S))

PixelInputs ==
    {[image |-> PixelImage(PixelDim, j, i, v, n), bkgd |-> 0, xcen |-> j * S,
      ycen |-> i * S, shiftmax |-> S, shape0 |-> sh] :
     j \in 0 .. PixelDim - 1, i \in 0 .. PixelDim - 1, v \in {1, 5}, n \in {0, 1},
     sh \in {FreshShape, UsedShape}}

PixelInit ==
    /\ inp \in PixelInputs
    /\ nanCast \in NanCasts
    /\ pc = [c \in Calls |-> "start"]
    /\ loc = [c \in Calls |-> InitLocals]
    /\ shape = [c \in Calls |-> inp.shape0]
    /\ ret = [c \in Calls |-> "none"]
    /\ hist = [c \in Calls |-> InitHist]
    /\ steps = [c \in Calls |-> 0]

PixelSpec == PixelInit /\ [][Next]_vars

\* the pixels of the image that are not zero
NonZero(image) ==
    {p \in (0 .. image.width - 1) \X (0 .. image.height - 1) :
        image.pix[p[2] + 1][p[1] + 1] # 0}

\* the only non-zero pixel is positive and the centre is guessed at it
SinglePixel ==
    /\ inp.bkgd = 0
    /\ \E p \in NonZero(inp.image) :
           /\ NonZero(inp.image) = {p}
           /\ inp.image.pix[p[2] + 1][p[1] + 1] > 0
           /\ inp.xcen = p[1] * S
           /\ inp.ycen = p[2] * S

\* C22: for an image whose only non-zero pixel is positive, with background
\* 0 and the centre guessed at that pixel, getAdaptiveMoments sets
\* UNWEIGHTED_BAD or reports exactly Ixx = Iyy = 1/12 and Ixy = 0
C22_SinglePixel ==
    \A c \in Calls :
        SinglePixel /\ pc[c] \in Final
        => \/ SHAPE_UNWEIGHTED_BAD \in shape[c].flags
           \/ shape[c].ixx = S \div 12 /\ shape[c].iyy = S \div 12 /\ shape[c].ixy = 0

C22_Witness ==
    /\ SinglePixel
    /\ pc[1] = "done"
    /\ hist[1].nloop = 1
    /\ hist[1].nfb = 1
    /\ SHAPE_UNWEIGHTED_BAD \in shape[1].flags
    /\ shape[1].ixx = S \div 12


(***************************************************************************)
(* Calls running at the same time over one image, each with its own shape  *)
(* record: the steps of the calls interleave freely.                       *)
(***************************************************************************)
\* the scenarios whose calls end within a few rounds
ConcScenarios == {1, 5, 8, 9, 11, 13, 14}

\* the shape record call c brings along
OwnShape(c) == IF c % 2 = 1 THEN inp.shape0
               ELSE IF inp.shape0 = FreshShape THEN UsedShape ELSE FreshShape

ConcInit ==
    /\ inp \in {Scenarios[k] : k \in ConcScenarios}
    /\ nanCast \in NanCasts
    /\ pc = [c \in Calls |-> "start"]
    /\ loc = [c \in Calls |-> InitLocals]
    /\ shape = [c \in Calls |-> OwnShape(c)]
    /\ ret = [c \in Calls |-> "none"]
    /\ hist = [c \in Calls |-> InitHist]
    /\ steps = [c \in Calls |-> 0]

\* call c is a call of getFixedMomentsFlux
StepFixedMomentsFlux(c) ==
    /\ pc[c] = "start"
    /\ ~IsNaN(inp.xcen)
    /\ \E r \in {getFixedMomentsFlux(inp.image, inp.bkgd, inp.xcen, inp.ycen,
                                     shape[c], nanCast)} :
           /\ ret' = [ret EXCEPT ![c] = r]
           /\ pc' = [pc EXCEPT ![c] = IF r.aborted THEN "aborted" ELSE "done"]
    /\ hist' = [hist EXCEPT ![c].how = "flux"]
    /\ Stepped(c)
    /\ UNCHANGED <<inp, nanCast, loc, shape>>

ConcNext ==
    \E c \in Calls : StepEnter(c) \/ StepRound(c) \/ StepLoopEnd(c) \/ StepUnweighted(c)
                     \/ StepFinish(c) \/ StepFixedMomentsFlux(c)

ConcSpec == ConcInit /\ [][ConcNext]_vars

\* how a call of getAdaptiveMoments that runs alone can end, from position p
\* with locals l, shape record sh and return value r
RECURSIVE RunAlone(_, _, _, _)
RunAlone(p, l, sh, r) ==
    IF p \in Final THEN {[pc |-> p, shape |-> sh, ret |-> r]}
    ELSE IF p = "start"
    THEN IF IsNaN(inp.xcen) \/ IsNaN(inp.ycen)
         THEN {[pc |-> "done", shape |-> [sh EXCEPT !.flags = NaNCentreFlags(@)],
                ret |-> "false"]}
         ELSE RunAlone("loop", l, sh, r)
    ELSE IF p = "loop"
    THEN UNION {RunAlone(x.next, x.l, x.sh, r) : x \in {RoundStep(l, sh, inp, nanCast)}}
    ELSE IF p = "post"
    THEN UNION {RunAlone(IF SHAPE_UNWEIGHTED \in flags THEN "fallback" ELSE "finish",
                         l, [sh EXCEPT !.flags = flags], r) :
                flags \in {LoopEndFlags(l, sh.flags, gxx, gyy) :
                           gxx \in Garbage, gyy \in Garbage}}
    ELSE IF p = "fallback"
    THEN UNION {RunAlone(IF x.failed THEN "done" ELSE "finish", x.l, x.sh,
                         IF x.failed THEN "false" ELSE r) :
                x \in {UnweightedStep(l, sh, inp, gsum) : gsum \in Garbage}}
    ELSE UNION {RunAlone(IF x.thrown THEN "thrown" ELSE "done", l, x.sh,
                         IF x.thrown THEN r ELSE "true") :
                x \in {FinishStep(l, sh, inp, gs4) : gs4 \in Garbage}}

\* what call c has of its own
Own(c) == <<pc[c], loc[c], shape[c], ret[c], hist[c], steps[c]>>

\* C23: calls of getAdaptiveMoments and getFixedMomentsFlux that run at the
\* same time over one unmodified image, each with its own shape record, end
\* as they can end when run alone, and a step of one call changes nothing of
\* another call or of the image
C23_Independent ==
    /\ [](\A c \in Calls :
              pc[c] \in Final
              => IF hist[c].how = "flux"
                 THEN /\ ret[c] = getFixedMomentsFlux(inp.image, inp.bkgd, inp.xcen,
                                                      inp.ycen, OwnShape(c), nanCast)
                      /\ shape[c] = OwnShape(c)
                 ELSE [pc |-> pc[c], shape |-> shape[c], ret |-> ret[c]]
                          \in RunAlone("start", InitLocals, OwnShape(c), "none"))
    /\ [][/\ inp' = inp
          /\ \A c, d \in Calls : Own(c)' # Own(c) /\ d # c => Own(d)' = Own(d)]_vars

\* two calls under way at once: call 1 and call 2 are both in their loops
\* after a round each, and call 2 has got further than call 1
C23_Witness ==
    /\ pc[1] = "loop"
    /\ pc[2] = "loop"
    /\ hist[1].nloop >= 1
    /\ hist[2].nloop > hist[1].nloop
    /\ shape[1].flags # shape[2].flags


(***************************************************************************)
(* getAdaptiveMoments on a 64 x 64 image of a circular Gaussian of sigma 3 *)
(* and amplitude 1000 centred at (32, 32), without a variance plane,       *)
(* measured at centres on the peak, beside it, and off the object.         *)
(***************************************************************************)
GaussDim == 64

GaussCentre == 32

\* 1000*exp(-r2/18) rounded to an integer, for r2 = 0, 1, ...; 0 further out
GaussProfile == <<
    1000, 946, 895, 846, 801, 757, 717, 678, 641, 607, 574, 543,
    513, 486, 459, 435, 411, 389, 368, 348, 329, 311, 295, 279,
    264, 249, 236, 223, 211, 200, 189, 179, 169, 160, 151, 143,
    135, 128, 121, 115, 108, 103, 97, 92, 87, 82, 78, 73,
    69, 66, 62, 59, 56, 53, 50, 47, 45, 42, 40, 38,
    36, 34, 32, 30, 29, 27, 26, 24, 23, 22, 20, 19,
    18, 17, 16, 16, 15, 14, 13, 12, 12, 11, 11, 10,
    9, 9, 8, 8, 8, 7, 7, 6, 6, 6, 5, 5,
    5, 5, 4, 4, 4, 4, 3, 3, 3, 3, 3, 3,
    2, 2, 2, 2, 2, 2, 2, 2, 2, 2, 1, 1,
    1, 1, 1, 1, 1, 1, 1, 1, 1, 1, 1, 1,
    1, 1, 1, 1, 1
    >>

GaussPixel(j, i) ==
    LET r2 == (j - GaussCentre) * (j - GaussCentre) + (i - GaussCentre) * (i - GaussCentre)
    IN  IF r2 < Len(GaussProfile) THEN GaussProfile[r2 + 1] ELSE 0

GaussImage ==
    Image([r \in 1 .. GaussDim |-> [k \in 1 .. GaussDim |-> GaussPixel(k - 1, r - 1)]],
          NoVar)

GaussCentres ==
    {<<GaussCentre * S, GaussCentre * S>>,
     <<GaussCentre * S + S, GaussCentre * S>>,
     <<0, 0>>,
     <<200 * S, GaussCentre * S>>}

GaussInputs ==
    {[image |-> GaussImage, bkgd |-> 0, xcen |-> c[1], ycen |-> c[2], shiftmax |-> S,
      shape0 |-> sh] : c \in GaussCentres, sh \in {FreshShape, UsedShape}}

GaussInit ==
    /\ inp \in GaussInputs
    /\ nanCast \in NanCasts
    /\ pc = [c \in Calls |-> "start"]
    /\ loc = [c \in Calls |-> InitLocals]
    /\ shape = [c \in Calls |-> inp.shape0]
    /\ ret = [c \in Calls |-> "none"]
    /\ hist = [c \in Calls |-> InitHist]
    /\ steps = [c \in Calls |-> 0]

GaussSpec == GaussInit /\ [][Next]_vars

\* the centre is guessed at the peak
OnPeak == inp.xcen = GaussCentre * S /\ inp.ycen = GaussCentre * S

RoundSolved(c) ==
    /\ pc[c] = "loop"
    /\ getWeights(loc[c].sigma11W, loc[c].sigma12W, loc[c].sigma22W).ok

\* the w11 that the round call c is about to run hands to calcmom
RoundW11(c) ==
    SolveWeights(loc[c], getWeights(loc[c].sigma11W, loc[c].sigma12W,
                                    loc[c].sigma22W)).w11

ClampShiftmax(shiftmax) ==
    IF Lt(shiftmax, 2 * S) THEN 2 * S
    ELSE IF Gt(shiftmax, 10 * S) THEN 10 * S ELSE shiftmax

\* the origins of the exposure's image in the parent's coordinates
Origins == {0, S}

\* the exposure, the algorithm's background and the centre of the patch
Patches ==
    {[image |-> Scenarios[k].image, bkgd |-> Scenarios[k].bkgd,
      x0 |-> o, y0 |-> o,
      centerX |-> Add(Scenarios[k].xcen, o), centerY |-> Add(Scenarios[k].ycen, o)] :
     k \in 1 .. NScenarios, o \in Origins}

\* what apply hands to getAdaptiveMoments
ApplyArgs(patch) ==
    [image |-> patch.image, bkgd |-> patch.bkgd,
     xcen |-> Sub(patch.centerX, patch.x0), ycen |-> Sub(patch.centerY, patch.y0),
     shiftmax |-> ClampShiftmax(S), shape0 |-> FreshShape]

ApplyInit ==
    /\ inp \in {ApplyArgs(patch) : patch \in Patches}
    /\ nanCast \in NanCasts
    /\ pc = [c \in Calls |-> "start"]
    /\ loc = [c \in Calls |-> InitLocals]
    /\ shape = [c \in Calls |-> inp.shape0]
    /\ ret = [c \in Calls |-> "none"]
    /\ hist = [c \in Calls |-> InitHist]
    /\ steps = [c \in Calls |-> 0]

\* the source's fields that apply sets from the shape record
Source(sh) ==
    [centroid |-> <<sh.x, sh.y>>, centroidFlag |-> TRUE,
     quadrupole |-> [xx |-> sh.ixx, yy |-> sh.iyy, xy |-> sh.iyy],
     shapeFlag |-> TRUE]

\* the source.set calls after getAdaptiveMoments has returned, whatever it
\* returned
StoreSource(c) ==
    /\ pc[c] = "done"
    /\ pc' = [pc EXCEPT ![c] = "stored"]
    /\ ret' = [ret EXCEPT ![c] = Source(shape[c])]
    /\ Stepped(c)
    /\ UNCHANGED <<inp, nanCast, loc, shape, hist>>

\* the sources are measured one after the other; an exception of
\* getAdaptiveMoments leaves apply
ApplyTurn(c) == \A d \in Calls : d < c => pc[d] \in {"stored", "thrown", "aborted"}

ApplyNext ==
    \E c \in Calls :
        /\ ApplyTurn(c)
        /\ \/ StepEnter(c)
           \/ StepRound(c)
           \/ StepLoopEnd(c)
           \/ StepUnweighted(c)
           \/ StepFinish(c)
           \/ StoreSource(c)

ApplySpec == ApplyInit /\ [][ApplyNext]_vars

\* C27: the source holds the shape record's centroid and its quadrupole,
\* xx = Ixx, yy = Iyy, xy = Ixy, and getAdaptiveMoments was given a
\* shiftmax within [2, 10]
C27_Stored ==
    \A c \in Calls :
        pc[c] = "stored" =>
            /\ ret[c].centroid = <<shape[c].x, shape[c].y>>
            /\ ret[c].quadrupole.xx = shape[c].ixx
            /\ ret[c].quadrupole.yy = shape[c].iyy
            /\ ret[c].quadrupole.xy = shape[c].ixy
            /\ Ge(inp.shiftmax, 2 * S) /\ Le(inp.shiftmax, 10 * S)

(***************************************************************************)
(* CoaddBoundedField                                                       *)
(* Positions are whole pixels; a Wcs is a shift of the sky against the     *)
(* pixels; a constituent field is linear in x; a polygon is the set of     *)
(* the pixels inside it.                                                   *)
(***************************************************************************)
MaxElements == 2

\* a null shared pointer
NullPtr == [null |-> TRUE]

Wcs(dx, dy) == [null |-> FALSE, dx |-> dx, dy |-> dy]

pixelToSky(wcs, position) == <<position[1] + wcs.dx, position[2] + wcs.dy>>

skyToPixel(wcs, coord) == <<coord[1] - wcs.dx, coord[2] - wcs.dy>>

Polygon(points) == [null |-> FALSE, points |-> points]

Box2I(minX, minY, maxX, maxY) == [minX |-> minX, minY |-> minY, maxX |-> maxX, maxY |-> maxY]

\* Box2D(bbox).contains(position), for a position that is a whole pixel
Box2DContains(bbox, position) ==
    /\ bbox.minX <= position[1] /\ position[1] <= bbox.maxX
    /\ bbox.minY <= position[2] /\ position[2] <= bbox.maxY

\* a constituent BoundedField and its evaluate()
LinearField(bbox, c0, c1) == [null |-> FALSE, bbox |-> bbox, c0 |-> c0, c1 |-> c1]

FieldEvaluate(field, position) == Add(field.c0, Mul(field.c1, position[1] * S))

Element(field, wcs, validPolygon, weight) ==
    [field |-> field, wcs |-> wcs, validPolygon |-> validPolygon, weight |-> weight]

\* the constructor without a default
CoaddBoundedField(bbox, coaddWcs, elements) ==
    [bbox |-> bbox, throwOnMissing |-> TRUE, default |-> 0, coaddWcs |-> coaddWcs,
     elements |-> elements]

\* the constructor with a default
CoaddBoundedFieldDefault(bbox, coaddWcs, elements, default_) ==
    [bbox |-> bbox, throwOnMissing |-> FALSE, default |-> default_,
     coaddWcs |-> coaddWcs, elements |-> elements]

\* the test in evaluate's loop: element e takes part at the sky position
Contributes(e, coord) ==
    LET transformedPosition == skyToPixel(e.wcs, coord)
        inValidArea == IF e.validPolygon.null THEN TRUE
                       ELSE transformedPosition \in e.validPolygon.points
    IN  Box2DContains(e.field.bbox, transformedPosition) /\ inValidArea

\* the loop of evaluate from element i on
RECURSIVE evaluateLoop(_, _, _, _, _)
evaluateLoop(elements, coord, i, sum, wSum) ==
    IF i > Len(elements) THEN [sum |-> sum, wSum |-> wSum]
    ELSE IF Contributes(elements[i], coord)
    THEN evaluateLoop(elements, coord, i + 1,
                      Add(sum, Mul(elements[i].weight,
                                   FieldEvaluate(elements[i].field,
                                                 skyToPixel(elements[i].wcs, coord)))),
                      Add(wSum, elements[i].weight))
    ELSE evaluateLoop(elements, coord, i + 1, sum, wSum)

evaluate(self, position) ==
    LET r == evaluateLoop(self.elements, pixelToSky(self.coaddWcs, position), 1, 0, 0)
    IN  IF r.wSum = 0
        THEN IF self.throwOnMissing
             THEN [thrown |-> TRUE, value |-> NaN]
             ELSE [thrown |-> FALSE, value |-> self.default]
        ELSE [thrown |-> FALSE, value |-> Div(r.sum, r.wSum)]

\* OutputArchiveHandle::put: the id of the object in the archive, 0 for a
\* null pointer
PutId(archive, obj) ==
    IF obj.null THEN 0
    ELSE IF \E k \in 1 .. Len(archive) : archive[k] = obj
    THEN CHOOSE k \in 1 .. Len(archive) : archive[k] = obj
    ELSE Len(archive) + 1

Put(archive, obj) ==
    IF PutId(archive, obj) = Len(archive) + 1 THEN Append(archive, obj) ELSE archive

\* InputArchive::get
Get(archive, id) == IF id = 0 THEN NullPtr ELSE archive[id]

\* a new record of the first catalog: the flag is clear
NewRecord1 ==
    [bbox_min |-> <<0, 0>>, bbox_max |-> <<0, 0>>, coaddWcs |-> 0,
     throwOnMissing |-> FALSE, default |-> 0]

\* the loop of write from element i on
RECURSIVE writeElements(_, _, _, _)
writeElements(elements, i, archive, cat2) ==
    IF i > Len(elements) THEN [archive |-> archive, cat2 |-> cat2]
    ELSE LET a1 == Put(archive, elements[i].field)
             a2 == Put(a1, elements[i].wcs)
             a3 == Put(a2, elements[i].validPolygon)
             record2 == [field |-> PutId(archive, elements[i].field),
                         wcs |-> PutId(a1, elements[i].wcs),
                         validPolygon |-> PutId(a2, elements[i].validPolygon),
                         weight |-> elements[i].weight]
         IN  writeElements(elements, i + 1, a3, Append(cat2, record2))

write(self) ==
    LET record1 == [NewRecord1 EXCEPT
                        !.bbox_min = <<self.bbox.minX, self.bbox.minY>>,
                        !.bbox_max = <<self.bbox.maxX, self.bbox.maxY>>,
                        !.coaddWcs = PutId(<<>>, self.coaddWcs),
                        !.default = self.default]
        r == writeElements(self.elements, 1, Put(<<>>, self.coaddWcs), <<>>)
    IN  [archive |-> r.archive, catalogs |-> <<<<record1>>, r.cat2>>]

\* Factory::read
read(archive, catalogs) ==
    LET record1 == catalogs[1][1]
        cat2 == catalogs[2]
        elements == [k \in 1 .. Len(cat2) |->
                        Element(Get(archive, cat2[k].field), Get(archive, cat2[k].wcs),
                                Get(archive, cat2[k].validPolygon), cat2[k].weight)]
    IN  CoaddBoundedFieldDefault(
            Box2I(record1.bbox_min[1], record1.bbox_min[2],
                  record1.bbox_max[1], record1.bbox_max[2]),
            Get(archive, record1.coaddWcs), elements, record1.default)

\* the constituents: two exposures side by side that overlap in column 1
CoaddElements ==
    {Element(LinearField(Box2I(0, 0, 1, 1), S, 0), Wcs(0, 0), poly, weight) :
         poly \in {NullPtr, Polygon({<<1, 0>>})}, weight \in {0 - S, 0, S}}
    \cup {Element(LinearField(Box2I(0, 0, 1, 1), 3 * S, S), Wcs(1, 0), poly, weight) :
              poly \in {NullPtr, Polygon({<<0, 0>>, <<0, 1>>})}, weight \in {0, S, 2 * S}}

ElementVectors == UNION {[1 .. n -> CoaddElements] : n \in 0 .. MaxElements}

CoaddWcss == {Wcs(0, 0), Wcs(1, 0)}

CoaddFields ==
    {CoaddBoundedField(Box2I(0, 0, 3, 1), wcs, elements) :
         wcs \in CoaddWcss, elements \in ElementVectors}
    \cup {CoaddBoundedFieldDefault(Box2I(0, 0, 3, 1), wcs, elements, 7 * S) :
              wcs \in CoaddWcss, elements \in ElementVectors}

CoaddPositions == {<<0, 0>>, <<1, 0>>, <<2, 1>>, <<5, 0>>}

\* a call of evaluate, or a write followed by a read
EvaluateArgs ==
    {[fn |-> "evaluate", self |-> self, position |-> position] :
     self \in CoaddFields, position \in CoaddPositions}

PersistArgs ==
    {[fn |-> "persist", self |-> self, position |-> <<0, 0>>] : self \in CoaddFields}

CoaddInit ==
    /\ inp \in EvaluateArgs \cup PersistArgs
    /\ nanCast \in NanCasts
    /\ pc = [c \in Calls |-> "start"]
    /\ loc = [c \in Calls |-> InitLocals]
    /\ shape = [c \in Calls |-> FreshShape]
    /\ ret = [c \in Calls |-> "none"]
    /\ hist = [c \in Calls |-> InitHist]
    /\ steps = [c \in Calls |-> 0]

CallEvaluate(c) ==
    /\ pc[c] = "start"
    /\ Turn(c)
    /\ inp.fn = "evaluate"
    /\ \E r \in {evaluate(inp.self, inp.position)} :
           /\ ret' = [ret EXCEPT ![c] = r]
           /\ pc' = [pc EXCEPT ![c] = IF r.thrown THEN "thrown" ELSE "done"]
    /\ Stepped(c)
    /\ UNCHANGED <<inp, nanCast, loc, shape, hist>>

\* the field writes itself to a new archive
CallWrite(c) ==
    /\ pc[c] = "start"
    /\ Turn(c)
    /\ inp.fn = "persist"
    /\ ret' = [ret EXCEPT ![c] = write(inp.self)]
    /\ pc' = [pc EXCEPT ![c] = "written"]
    /\ Stepped(c)
    /\ UNCHANGED <<inp, nanCast, loc, shape, hist>>

\* the factory reads what was written
CallRead(c) ==
    /\ pc[c] = "written"
    /\ ret' = [ret EXCEPT ![c] = [field |-> read(ret[c].archive, ret[c].catalogs)]]
    /\ pc' = [pc EXCEPT ![c] = "done"]
    /\ Stepped(c)
    /\ UNCHANGED <<inp, nanCast, loc, shape, hist>>

CoaddNext == \E c \in Calls : CallEvaluate(c) \/ CallWrite(c) \/ CallRead(c)

CoaddSpec == CoaddInit /\ [][CoaddNext]_vars

\* C28: the field read back has the bounding box, the coadd Wcs, the
\* elements with their weights and the two parameters for missing data of
\* the field that was written, and evaluates as it does at every position
C28_RoundTrip ==
    \A c \in Calls :
        Returned(c, "persist") =>
            /\ ret[c].field.bbox = inp.self.bbox
            /\ ret[c].field.coaddWcs = inp.self.coaddWcs
            /\ ret[c].field.elements = inp.self.elements
            /\ ret[c].field.throwOnMissing = inp.self.throwOnMissing
            /\ ret[c].field.default = inp.self.default
            /\ \A position \in CoaddPositions :
                   evaluate(ret[c].field, position) = evaluate(inp.self, position)

\* the elements that take part at a position
Contributing(self, position) ==
    {k \in 1 .. Len(self.elements) :
        Contributes(self.elements[k], pixelToSky(self.coaddWcs, position))}

\* the weights of the elements ks, and their weighted values, added up
RECURSIVE WeightSum(_, _)
WeightSum(self, ks) ==
    IF ks = {} THEN 0
    ELSE LET k == CHOOSE j \in ks : TRUE
         IN  Add(self.elements[k].weight, WeightSum(self, ks \ {k}))

RECURSIVE ValueSum(_, _, _)
ValueSum(self, position, ks) ==
    IF ks = {} THEN 0
    ELSE LET k == CHOOSE j \in ks : TRUE
             e == self.elements[k]
         IN  Add(Mul(e.weight,
                     FieldEvaluate(e.field, skyToPixel(e.wcs, pixelToSky(self.coaddWcs,
                                                                         position)))),
                 ValueSum(self, position, ks \ {k}))

\* C29: evaluate takes the path for missing data (the exception, or the
\* default) exactly when no element takes part at the position, and
\* otherwise returns the weighted mean over the elements that take part
C29_WeightedMean ==
    \A c \in Calls :
        inp.fn = "evaluate" /\ pc[c] \in {"done", "thrown"} =>
            LET ks == Contributing(inp.self, inp.position)
            IN  IF ks = {}
                THEN IF inp.self.throwOnMissing THEN pc[c] = "thrown"
                     ELSE pc[c] = "done" /\ ret[c].value = inp.self.default
                ELSE /\ pc[c] = "done"
                     /\ ret[c].value = Div(ValueSum(inp.self, inp.position, ks),
                                           WeightSum(inp.self, ks))

(***************************************************************************)
(* PsfAttributes: computeSecondMomentAdaptive and its calcmom              *)
(***************************************************************************)
\* +infinity, the value of 1/0
Inf == 2000000000

\* 0.0001 rounded up to the grid: for a grid value x, x < TOL exactly when
\* x <= 0
TOL == 1

\* what the body of calcmom's loops adds for pixel (j, i)
PsfPixelMoms(image, j, i, xCen, yCen, w11) ==
    LET x == j * S - xCen
        y == i * S - yCen
        r2 == Mul(x, x) + Mul(y, y)
        expon == Mul(r2, w11)
    IN  IF Le(expon, 14 * S)
        THEN The({[sum |-> ymod, sumrr |-> Mul(r2, ymod)] :
                  ymod \in {Mul(PixelAt(image, j, i), ExpHalf(expon))}})
        ELSE [sum |-> 0, sumrr |-> 0]

\* the sums over pixels k .. n - 1 of the image, counted row by row from 0
RECURSIVE PsfSumPixels(_, _, _, _, _, _)
PsfSumPixels(k, n, image, xCen, yCen, w11) ==
    IF k >= n THEN [sum |-> 0, sumrr |-> 0]
    ELSE The({[sum |-> Add(m.sum, rest.sum), sumrr |-> Add(m.sumrr, rest.sumrr)] :
              m \in {PsfPixelMoms(image, k % image.width, k \div image.width,
                                  xCen, yCen, w11)},
              rest \in {PsfSumPixels(k + 1, n, image, xCen, yCen, w11)}})

\* PsfAttributes' calcmom: the pair (ok, 0.5*sumrr/sum)
PsfCalcmom(image, xCen, yCen, w11) ==
    IF ~Ge(w11, 0) THEN [aborted |-> TRUE, first |-> FALSE, second |-> NaN]
    ELSE IF Gt(Fabs(w11), BIG) THEN [aborted |-> FALSE, first |-> FALSE, second |-> NaN]
    ELSE The({IF Le(m.sum, 0) \/ Lt(m.sumrr, 0)
              THEN [aborted |-> FALSE, first |-> FALSE, second |-> NaN]
              ELSE [aborted |-> FALSE, first |-> TRUE,
                    second |-> Div(Mul(S \div 2, m.sumrr), m.sum)] :
              m \in {PsfSumPixels(0, image.width * image.height, image, xCen, yCen,
                                  w11)}})

\* the locals of computeSecondMomentAdaptive; weighted and unweighted count
\* the runs of calcmom, zeroDiv tells that 1/sigma11_ow was taken of 0
PsfLocals ==
    [w11 |-> S \div 2, sigma11_ow_old |-> BIG, unweighted |-> FALSE, iter |-> 0,
     weighted |-> 0, unweightedPasses |-> 0, zeroDiv |-> FALSE, how |-> "running"]

\* 1/sigma11_ow - w11
NewW11(sigma11_ow, w11) == IF sigma11_ow = 0 THEN Inf ELSE Sub(Div(S, sigma11_ow), w11)

\* the body of the loop after a calcmom that succeeded
PsfUpdate(l, sigma11_ow) ==
    IF l.iter > 0 /\ Lt(Fabs(Sub(Div(sigma11_ow, l.sigma11_ow_old), S)), TOL)
    THEN [l EXCEPT !.how = "converged"]
    ELSE The({IF Le(w11, 0)
              THEN [l EXCEPT !.sigma11_ow_old = sigma11_ow, !.w11 = w11,
                             !.zeroDiv = @ \/ sigma11_ow = 0,
                             !.unweighted = TRUE, !.how = "unweighted"]
              ELSE [l EXCEPT !.sigma11_ow_old = sigma11_ow, !.w11 = w11,
                             !.zeroDiv = @ \/ sigma11_ow = 0,
                             !.iter = @ + 1,
                             !.how = IF l.iter + 1 < MAXIT THEN "running" ELSE "exhausted"] :
              w11 \in {NewW11(sigma11_ow, l.w11)}})

\* one pass of the loop
PsfRound(l, image, xCen, yCen) ==
    The({IF moments.aborted THEN [l EXCEPT !.how = "aborted"]
         ELSE IF ~moments.first
         THEN [l EXCEPT !.weighted = @ + 1, !.unweighted = TRUE, !.how = "unweighted"]
         ELSE PsfUpdate([l EXCEPT !.weighted = @ + 1], moments.second) :
         moments \in {PsfCalcmom(image, xCen, yCen, l.w11)}})

\* what follows the loop: the value returned
PsfResult(l, image, xCen, yCen) ==
    IF l.iter = MAXIT \/ l.unweighted
    THEN The({Scale(2, IF moments.first THEN moments.second ELSE iMin) :
              moments \in {PsfCalcmom(image, xCen, yCen, 0)}})
    ELSE Scale(2, Div(S, l.w11))

PsfImages ==
    {Image(<<<<0, 0, 0>>, <<0, 5, 0>>, <<0, 0, 0>>>>, NoVar),
     Image(<<<<1, 2, 1>>, <<2, 4, 2>>, <<1, 2, 1>>>>, NoVar),
     Image(<<<<0, 0, 0>>, <<0, 0, 0>>, <<0, 0, 0>>>>, NoVar),
     Image(<<<<0, 1, 0>>, <<1, -2, 1>>, <<0, 1, 0>>>>, NoVar),
     Image(<<<<0, 0, 0, 0, 0>>, <<0, 1, 3, 1, 0>>, <<0, 3, 9, 3, 0>>,
             <<0, 1, 3, 1, 0>>, <<0, 0, 0, 0, 0>>>>, NoVar),
     Image(<<<<0, 0, 0, 0, 0>>, <<0, 0, 0, 0, 0>>, <<7, 0, 0, 0, 7>>,
             <<0, 0, 0, 0, 0>>, <<0, 0, 0, 0, 0>>>>, NoVar)}

\* the centre that computeGaussianWidth passes, and centres off it
PsfCentres(image) ==
    {<<(image.width \div 2) * S, (image.height \div 2) * S>>, <<0, 0>>,
     <<(image.width \div 2) * S + S \div 4, (image.height \div 2) * S>>}

PsfArgs ==
    UNION {{[fn |-> "computeSecondMomentAdaptive", image |-> image, xCen |-> c[1],
             yCen |-> c[2]] : c \in PsfCentres(image)} : image \in PsfImages}

PsfInit ==
    /\ inp \in PsfArgs
    /\ nanCast \in NanCasts
    /\ pc = [c \in Calls |-> "loop"]
    /\ loc = [c \in Calls |-> PsfLocals]
    /\ shape = [c \in Calls |-> FreshShape]
    /\ ret = [c \in Calls |-> "none"]
    /\ hist = [c \in Calls |-> InitHist]
    /\ steps = [c \in Calls |-> 0]

\* one pass of the loop of call c
StepPsfRound(c) ==
    /\ pc[c] = "loop"
    /\ Turn(c)
    /\ \E l \in {PsfRound(loc[c], inp.image, inp.xCen, inp.yCen)} :
           /\ loc' = [loc EXCEPT ![c] = l]
           /\ pc' = [pc EXCEPT ![c] = IF l.how = "running" THEN "loop"
                                      ELSE IF l.how = "aborted" THEN "aborted"
                                      ELSE "post"]
    /\ Stepped(c)
    /\ UNCHANGED <<inp, nanCast, shape, ret, hist>>

\* the unweighted pass where it is needed, and the return
StepPsfReturn(c) ==
    /\ pc[c] = "post"
    /\ Turn(c)
    /\ ret' = [ret EXCEPT ![c] = PsfResult(loc[c], inp.image, inp.xCen, inp.yCen)]
    /\ loc' = [loc EXCEPT ![c].unweightedPasses =
                              IF loc[c].iter = MAXIT \/ loc[c].unweighted THEN 1 ELSE 0]
    /\ pc' = [pc EXCEPT ![c] = "done"]
    /\ Stepped(c)
    /\ UNCHANGED <<inp, nanCast, shape, hist>>

PsfNext == \E c \in Calls : StepPsfRound(c) \/ StepPsfReturn(c)

PsfSpec == PsfInit /\ [][PsfNext]_vars

\* C30: computeSecondMomentAdaptive has made at most 100 weighted passes
\* and one unweighted pass when it returns, what it returns is finite and
\* > 0, and it never takes 1/sigma11_ow of sigma11_ow = 0
C30_PositiveWidth ==
    \A c \in Calls :
        /\ loc[c].weighted <= MAXIT /\ loc[c].unweightedPasses <= 1
        /\ ~loc[c].zeroDiv
        /\ pc[c] = "done" => Gt(ret[c], 0) /\ Lt(ret[c], Inf)

====
